---- MODULE Spec2Model ----
(***************************************************************************)
(* llurl: the URL parser http_parser_parse_url of src/llurl.c (the bitmask *)
(* variant, lines 1295-2482), modelled one loop iteration per step.        *)
(*                                                                         *)
(* Bytes are the integers 0..255.  Offsets are the C offsets (0-based);    *)
(* At(b, k) reads byte k of the buffer b.  A read at an index >= buflen is *)
(* outside the buffer the caller handed in: it yields the byte g that the  *)
(* step draws from Garbage.                                                *)
(***************************************************************************)
EXTENDS Integers, Sequences, FiniteSets, TLC

(* ------------------------------------------------------------------ *)
(* Bytes used by the code as literals                                  *)
(* ------------------------------------------------------------------ *)
NUL == 0
SPACE == 32
HASH == 35
PERCENT == 37
STAR == 42
DOT == 46
SLASH == 47
DIGIT0 == 48
COLON == 58
QUESTION == 63
AT == 64
LBRACKET == 91
RBRACKET == 93
PIPE == 124
TILDE == 126
HIGH == 128

\* letters of the scheme fast paths
La == 97
Lf == 102
Lg == 103
Lh == 104
Lp == 112
Ls == 115
Lt == 116
Lw == 119

(* ------------------------------------------------------------------ *)
(* char_flags[256]: the bitmask table, a set of flags per byte         *)
(* ------------------------------------------------------------------ *)
IsAlphaByte(c) == (c >= 65 /\ c <= 90) \/ (c >= 97 /\ c <= 122)

IsDigitByte(c) == c >= 48 /\ c <= 57

IsHexByte(c) == IsDigitByte(c) \/ (c >= 65 /\ c <= 70) \/ (c >= 97 /\ c <= 102)

\* bytes carrying CHAR_UNRESERVED: - . _ ~
UnreservedBytes == {45, 46, 95, 126}

\* bytes carrying CHAR_SUBDELIM: ! $ & ' ( ) * + , ; =
SubdelimBytes == {33, 36, 38, 39, 40, 41, 42, 43, 44, 59, 61}

\* bytes carrying CHAR_USERINFO besides alpha and digit:
\* ! $ % & ' ( ) * + , - . : ; = _      (the entry of ~ has no CHAR_USERINFO)
UserinfoPunct == {33, 36, 37, 38, 39, 40, 41, 42, 43, 44, 45, 46, 58, 59, 61, 95}

char_flags(c) ==
    (IF IsAlphaByte(c) THEN {"CHAR_ALPHA"} ELSE {})
    \cup (IF IsDigitByte(c) THEN {"CHAR_DIGIT"} ELSE {})
    \cup (IF IsHexByte(c) THEN {"CHAR_HEX"} ELSE {})
    \cup (IF c \in UnreservedBytes THEN {"CHAR_UNRESERVED"} ELSE {})
    \cup (IF c \in SubdelimBytes THEN {"CHAR_SUBDELIM"} ELSE {})
    \cup (IF IsAlphaByte(c) \/ IsDigitByte(c) \/ c \in UserinfoPunct
          THEN {"CHAR_USERINFO"} ELSE {})

\* is_alpha that takes digits too
is_alpha_OrDigit(ch) == {"CHAR_ALPHA", "CHAR_DIGIT"} \cap char_flags(ch) # {}

is_alpha(ch) == "CHAR_ALPHA" \in char_flags(ch)

is_userinfo_char(ch) == "CHAR_USERINFO" \in char_flags(ch)

IS_HEX(c) == "CHAR_HEX" \in char_flags(c)

(* ------------------------------------------------------------------ *)
(* char_class_table[256]: the DFA character class of a byte            *)
(* ------------------------------------------------------------------ *)
char_class_table(c) ==
    CASE IsAlphaByte(c) -> "cc_alpha"
      [] IsDigitByte(c) -> "cc_digit"
      [] c = 33 -> "cc_exclamation"
      [] c = 35 -> "cc_hash"
      [] c = 36 -> "cc_dollar"
      [] c = 37 -> "cc_percent"
      [] c = 38 -> "cc_ampersand"
      [] c = 39 -> "cc_apostrophe"
      [] c = 40 -> "cc_lparen"
      [] c = 41 -> "cc_rparen"
      [] c = 42 -> "cc_asterisk"
      [] c = 43 -> "cc_plus"
      [] c = 44 -> "cc_comma"
      [] c = 45 -> "cc_dash"
      [] c = 46 -> "cc_dot"
      [] c = 47 -> "cc_slash"
      [] c = 58 -> "cc_colon"
      [] c = 59 -> "cc_semicolon"
      [] c = 61 -> "cc_equals"
      [] c = 63 -> "cc_question"
      [] c = 64 -> "cc_at"
      [] c = 91 -> "cc_lbracket"
      [] c = 93 -> "cc_rbracket"
      [] c = 95 -> "cc_underscore"
      [] c = 123 -> "cc_lbrace"
      [] c = 124 -> "cc_pipe"
      [] c = 125 -> "cc_rbrace"
      [] c = 126 -> "cc_tilde"
      [] OTHER -> "cc_invalid"

\* SchemaRow with no class leading to s_dead
SchemaRow_NeverDead(cc) == IF cc = "cc_colon" THEN "s_schema_slash" ELSE "STAY"

\* url_state_table[s_schema][class]: the only row the driver looks up
SchemaRow(cc) ==
    CASE cc \in {"cc_alpha", "cc_digit", "cc_dot", "cc_dash", "cc_plus"} -> "STAY"
      [] cc = "cc_colon" -> "s_schema_slash"
      [] OTHER -> "s_dead"

\* enum char_class, in the order of its declaration
Classes == <<"cc_invalid", "cc_alpha", "cc_digit", "cc_slash", "cc_colon",
             "cc_question", "cc_hash", "cc_at", "cc_dot", "cc_dash", "cc_plus",
             "cc_percent", "cc_ampersand", "cc_equals", "cc_semicolon",
             "cc_dollar", "cc_exclamation", "cc_asterisk", "cc_comma",
             "cc_lparen", "cc_rparen", "cc_apostrophe", "cc_underscore",
             "cc_tilde", "cc_lbracket", "cc_rbracket", "cc_pipe", "cc_lbrace",
             "cc_rbrace">>

\* enum state, in the order of its declaration
States == <<"s_dead", "s_start", "s_schema", "s_schema_slash",
            "s_schema_slash_slash", "s_server_start", "s_server",
            "s_server_with_at", "s_path", "s_query_or_fragment", "s_query",
            "s_fragment">>

\* url_state_table[state][class]; "STAY" is 0xFF
url_state_table(st, cc) ==
    CASE st = "s_start" ->
            (CASE cc = "cc_alpha" -> "s_schema"
               [] cc \in {"cc_slash", "cc_asterisk"} -> "s_path"
               [] OTHER -> "s_dead")
      [] st = "s_schema" -> SchemaRow(cc)
      [] st = "s_schema_slash" ->
            (IF cc = "cc_slash" THEN "s_schema_slash_slash" ELSE "s_dead")
      [] st = "s_schema_slash_slash" ->
            (IF cc = "cc_slash" THEN "s_server_start" ELSE "s_dead")
      [] st = "s_server" ->
            (CASE cc \in {"cc_invalid", "cc_hash"} -> "s_dead"
               [] cc = "cc_slash" -> "s_path"
               [] cc = "cc_question" -> "s_query_or_fragment"
               [] cc = "cc_at" -> "s_server_with_at"
               [] OTHER -> "STAY")
      [] st = "s_server_with_at" ->
            (CASE cc \in {"cc_invalid", "cc_hash", "cc_at"} -> "s_dead"
               [] cc = "cc_slash" -> "s_path"
               [] cc = "cc_question" -> "s_query_or_fragment"
               [] OTHER -> "STAY")
      [] st = "s_path" ->
            (CASE cc = "cc_invalid" -> "s_dead"
               [] cc \in {"cc_question", "cc_hash"} -> "s_query_or_fragment"
               [] OTHER -> "STAY")
      [] st = "s_query_or_fragment" ->
            (CASE cc = "cc_question" -> "s_query"
               [] cc = "cc_hash" -> "s_fragment"
               [] OTHER -> "s_dead")
      [] st = "s_query" ->
            (CASE cc = "cc_invalid" -> "s_dead"
               [] cc = "cc_hash" -> "s_fragment"
               [] OTHER -> "STAY")
      [] st = "s_fragment" ->
            (IF cc = "cc_invalid" THEN "s_dead" ELSE "STAY")
      [] OTHER -> "s_dead"

(* ------------------------------------------------------------------ *)
(* Buffer reads                                                        *)
(* ------------------------------------------------------------------ *)
\* buf[k]; g is what a read outside the buffer yields
At(b, k, g) == IF k >= 0 /\ k < Len(b) THEN b[k + 1] ELSE g

\* memchr(buf + from, c, n): index of the first c in [from, from+n), -1 for NULL
memchr(b, from, c, n, g) ==
    LET hits == {k \in from..(from + n - 1) : At(b, k, g) = c}
    IN IF hits = {} THEN -1 ELSE CHOOSE k \in hits : \A m \in hits : k <= m

(* ------------------------------------------------------------------ *)
(* struct http_parser_url                                              *)
(* ------------------------------------------------------------------ *)
Fields == {"UF_SCHEMA", "UF_HOST", "UF_PORT", "UF_PATH", "UF_QUERY",
           "UF_FRAGMENT", "UF_USERINFO"}

\* memset(u, 0, sizeof(*u))
http_parser_url_init ==
    [field_set |-> {}, port |-> 0,
     field_data |-> [f \in Fields |-> [off |-> 0, len |-> 0]]]

mark_field(u, field) == [u EXCEPT !.field_set = @ \cup {field}]

SetData(u, field, off, len) ==
    [u EXCEPT !.field_data[field] = [off |-> off, len |-> len]]

(* ------------------------------------------------------------------ *)
(* parse_port                                                          *)
(* ------------------------------------------------------------------ *)
PortMax == 65535

RECURSIVE PortLoop_NoDigitCheck(_, _, _, _, _, _)
\* PortLoop with the digit test of the general path left out
PortLoop_NoDigitCheck(b, off, len, i, val, g) ==
    IF i >= len THEN [ok |-> TRUE, port |-> val]
    ELSE LET v == val * 10 + (At(b, off + i, g) - DIGIT0)
         IN IF v > PortMax THEN [ok |-> FALSE, port |-> 0]
            ELSE PortLoop_NoDigitCheck(b, off, len, i + 1, v, g)

RECURSIVE PortLoop_NoRangeCheck(_, _, _, _, _, _)
\* PortLoop with the test val > 65535 left out; *port = (uint16_t)val
PortLoop_NoRangeCheck(b, off, len, i, val, g) ==
    IF i >= len THEN [ok |-> TRUE, port |-> val % (PortMax + 1)]
    ELSE LET c == At(b, off + i, g)
         IN IF "CHAR_DIGIT" \notin char_flags(c) THEN [ok |-> FALSE, port |-> 0]
            ELSE PortLoop_NoRangeCheck(b, off, len, i + 1, val * 10 + (c - DIGIT0), g)

RECURSIVE PortLoop(_, _, _, _, _, _)
\* the general path: while (i < len) { digit check; val = val*10 + d; val > 65535 }
PortLoop(b, off, len, i, val, g) ==
    IF i >= len THEN [ok |-> TRUE, port |-> val]
    ELSE LET c == At(b, off + i, g)
             v == val * 10 + (c - DIGIT0)
         IN IF "CHAR_DIGIT" \notin char_flags(c) THEN [ok |-> FALSE, port |-> 0]
            ELSE IF v > PortMax THEN [ok |-> FALSE, port |-> 0]
            ELSE PortLoop(b, off, len, i + 1, v, g)

\* parse_port without the test of the length
parse_port_NoLenCheck(b, off, len, g) == PortLoop(b, off, len, 0, 0, g)

\* parse_port(buf + off, len, &port): ok is "returned 0", port is *port
parse_port(b, off, len, g) ==
    LET c0 == At(b, off, g)
        c1 == At(b, off + 1, g)
        c2 == At(b, off + 2, g)
        c3 == At(b, off + 3, g)
        d(c) == c - DIGIT0
        bad == [ok |-> FALSE, port |-> 0]
    IN IF len = 0 \/ len > 5 THEN bad
       ELSE IF len = 1 THEN
            IF "CHAR_DIGIT" \in char_flags(c0)
            THEN [ok |-> TRUE, port |-> d(c0)] ELSE bad
       ELSE IF len = 2 THEN
            IF "CHAR_DIGIT" \in char_flags(c0) /\ "CHAR_DIGIT" \in char_flags(c1)
            THEN [ok |-> TRUE, port |-> d(c0) * 10 + d(c1)] ELSE bad
       ELSE IF len = 3 THEN
            LET flags == char_flags(c0) \cap char_flags(c1) \cap char_flags(c2)
            IN IF "CHAR_DIGIT" \in flags
               THEN [ok |-> TRUE, port |-> d(c0) * 100 + d(c1) * 10 + d(c2)]
               ELSE bad
       ELSE IF len = 4 THEN
            LET flags == char_flags(c0) \cap char_flags(c1)
                         \cap char_flags(c2) \cap char_flags(c3)
                val == d(c0) * 1000 + d(c1) * 100 + d(c2) * 10 + d(c3)
            IN IF "CHAR_DIGIT" \in flags
               THEN (IF val <= PortMax THEN [ok |-> TRUE, port |-> val] ELSE bad)
               ELSE bad
       ELSE PortLoop(b, off, len, 0, 0, g)

(* ------------------------------------------------------------------ *)
(* finalize_host_with_port                                             *)
(* ------------------------------------------------------------------ *)
\* lines 1883-1885 and 1922: a port follows the first colon of the host
HasPort(field_start, end_pos, port_start, found_colon) ==
    found_colon /\ port_start > field_start /\ port_start < end_pos

\* TentativeHostLen with the colon counted into the host
TentativeHostLen_KeepColon(field_start, end_pos, port_start, found_colon) ==
    IF HasPort(field_start, end_pos, port_start, found_colon)
    THEN port_start - field_start
    ELSE end_pos - field_start

\* lines 1883-1885: host_len before the bracket handling
TentativeHostLen(field_start, end_pos, port_start, found_colon) ==
    IF HasPort(field_start, end_pos, port_start, found_colon)
    THEN port_start - field_start - 1
    ELSE end_pos - field_start

\* InnerHostLen with the closing bracket counted into the host
InnerHostLen_KeepBracket(last_bracket, host_off) == last_bracket - host_off

\* lines 1911 and 1917: host_len of a bracketed literal, the brackets left out
InnerHostLen(last_bracket, host_off) == last_bracket - host_off - 1

\* returns [ok |-> the function returned 1, u |-> the view it leaves]
finalize_host_with_port(u, b, field_start, end_pos, port_start, found_colon, g) ==
    LET has_port == HasPort(field_start, end_pos, port_start, found_colon)
        host_len0 == TentativeHostLen(field_start, end_pos, port_start, found_colon)
        ipv6 == host_len0 >= 2 /\ At(b, field_start, g) = LBRACKET
        \* memchr(buf + host_off + 1, ']', search_len - 1)
        last_bracket == memchr(b, field_start + 1, RBRACKET, host_len0 - 1, g)
        after_bracket == last_bracket + 1
        end == field_start + host_len0 - 1
        inner_port == after_bracket <= end /\ At(b, after_bracket, g) = COLON
        port_len6 == end - after_bracket
        pp6 == parse_port(b, after_bracket + 1, port_len6, g)
        \* the view after the IPv6 block
        u6 == IF ipv6 /\ inner_port
              THEN mark_field(SetData([u EXCEPT !.port = pp6.port], "UF_PORT",
                                      after_bracket + 1, port_len6), "UF_PORT")
              ELSE u
        host_off == IF ipv6 THEN field_start + 1 ELSE field_start
        host_len == IF ipv6 THEN InnerHostLen(last_bracket, field_start) ELSE host_len0
        port_len == end_pos - port_start
        pp == parse_port(b, port_start, port_len, g)
    IN IF ipv6 /\ last_bracket = -1 THEN [ok |-> FALSE, u |-> u]
       ELSE IF ipv6 /\ inner_port /\ ~pp6.ok THEN [ok |-> FALSE, u |-> u]
       ELSE IF has_port THEN
            IF pp.ok
            THEN [ok |-> TRUE,
                  u |-> mark_field(mark_field(
                          SetData(SetData([u6 EXCEPT !.port = pp.port],
                                          "UF_HOST", host_off, host_len),
                                  "UF_PORT", port_start, port_len),
                          "UF_HOST"), "UF_PORT")]
            ELSE [ok |-> FALSE, u |-> u6]
       ELSE [ok |-> TRUE,
             u |-> mark_field(SetData(u6, "UF_HOST", host_off, host_len), "UF_HOST")]

(* ------------------------------------------------------------------ *)
(* validate_host_percent_encoding                                      *)
(* ------------------------------------------------------------------ *)
RECURSIVE PercentLoop_NoHexCheck(_, _, _, _, _)
\* PercentLoop with the HEX test of the two bytes after '%' left out
PercentLoop_NoHexCheck(b, off, len, j, g) ==
    IF j >= len THEN TRUE
    ELSE IF At(b, off + j, g) = PERCENT THEN
         IF j + 2 >= len THEN FALSE
         ELSE PercentLoop_NoHexCheck(b, off, len, j + 3, g)
    ELSE PercentLoop_NoHexCheck(b, off, len, j + 1, g)

RECURSIVE PercentLoop(_, _, _, _, _)
\* while (j < len) { if (buf[off+j] == '%') { ...; j += 2; } j++; }
PercentLoop(b, off, len, j, g) ==
    IF j >= len THEN TRUE
    ELSE IF At(b, off + j, g) = PERCENT THEN
         IF j + 2 >= len THEN FALSE
         ELSE IF ~IS_HEX(At(b, off + j + 1, g)) \/ ~IS_HEX(At(b, off + j + 2, g))
              THEN FALSE
              ELSE PercentLoop(b, off, len, j + 3, g)
    ELSE PercentLoop(b, off, len, j + 1, g)

validate_host_percent_encoding(b, off, len, g) ==
    LET percent_pos == memchr(b, off, PERCENT, len, g)
    IN IF percent_pos = -1 THEN TRUE
       ELSE IF memchr(b, off, COLON, len, g) # -1 THEN TRUE
       ELSE PercentLoop(b, off, len, percent_pos - off, g)

(* ------------------------------------------------------------------ *)
(* http_parser_parse_url: the locals of one call, as a record          *)
(* ------------------------------------------------------------------ *)
\* pc: "loop" = at start_parsing with cursor i, "final" = the loop was left,
\*     "done" = returned (ret = 0 success, 1 failure)
Frame(b, c, u, state, field, field_start, i, pc, ret) ==
    [buf |-> b, is_connect |-> c, u |-> u, state |-> state, field |-> field,
     field_start |-> field_start, i |-> i, port_start |-> 0,
     found_colon |-> FALSE, bracket_depth |-> 0, pc |-> pc, ret |-> ret]

\* return 1
Fail(s) == [s EXCEPT !.pc = "done", !.ret = 1]

\* continue, or break out of the switch: i++ and the loop test i < buflen
Continue(s) ==
    LET i2 == s.i + 1
    IN [s EXCEPT !.i = i2, !.pc = IF i2 < Len(s.buf) THEN "loop" ELSE "final"]

\* break out of the for loop with i = buflen
BreakAtEnd(s) == [s EXCEPT !.i = Len(s.buf), !.pc = "final"]

\* FastSchema that resumes one byte late
FastSchema_SkipByte(b, c, u, n) ==
    Frame(b, c, mark_field(SetData(u, "UF_SCHEMA", 0, n), "UF_SCHEMA"),
          "s_schema_slash", "UF_MAX", 0, n + 2, "loop", 0)

\* the scheme fast path: schema (0, n) recorded, goto start_parsing at i = n + 1
FastSchema(b, c, u, n) ==
    Frame(b, c, mark_field(SetData(u, "UF_SCHEMA", 0, n), "UF_SCHEMA"),
          "s_schema_slash", "UF_MAX", 0, n + 1, "loop", 0)

\* PathStart with the path begun at offset 1
PathStart_AtOne(b, c, u) ==
    Frame(b, c, mark_field(u, "UF_PATH"), "s_path", "UF_PATH", 1, 0, "loop", 0)

\* lines 2027-2039: a leading '/' (no second '/') or '*' starts the path at 0
PathStart(b, c, u) ==
    Frame(b, c, mark_field(u, "UF_PATH"), "s_path", "UF_PATH", 0, 0, "loop", 0)

\* ProtocolRelativeStart with the cursor left at offset 0
ProtocolRelativeStart_AtZero(b, c, u) ==
    Frame(b, c, mark_field(u, "UF_HOST"), "s_server_start", "UF_HOST",
          0, 0, "loop", 0)

\* ProtocolRelativeStart that parses an "http:"-prefixed copy of the input
ProtocolRelativeStart_ViaCopy(b, c, u) ==
    FastSchema(<<Lh, Lt, Lt, Lp, COLON>> \o b, c, u, 4)

\* lines 2013-2026: "//" enters s_server_start at offset 2 of the caller's
\* buffer; nothing is copied and no field is rewritten afterwards
ProtocolRelativeStart(b, c, u) ==
    IF 2 >= Len(b) THEN Frame(b, c, u, "s_dead", "UF_MAX", 0, 0, "done", 1)
    ELSE Frame(b, c, mark_field(u, "UF_HOST"), "s_server_start", "UF_HOST",
               2, 2, "loop", 0)

\* lines 2094-2098: no fast path applies, the scheme is scanned from offset 0
SchemaStart(b, c, u) ==
    Frame(b, c, mark_field(u, "UF_SCHEMA"), "s_schema", "UF_SCHEMA",
          0, 0, "loop", 0)

\* lines 1996-2103: everything before the loop.  u is the caller's view as it
\* is on entry: the function does not clear it.
Enter(b, c, u) ==
    LET buflen == Len(b)
        B(k) == b[k + 1]
        dead == Frame(b, c, u, "s_dead", "UF_MAX", 0, 0, "done", 1)
    IN IF buflen = 0 THEN dead
       ELSE IF c THEN
            Frame(b, c, mark_field(u, "UF_HOST"), "s_server_start", "UF_HOST",
                  0, 0, "loop", 0)
       ELSE IF B(0) = SLASH THEN
            IF buflen >= 2 /\ B(1) = SLASH THEN ProtocolRelativeStart(b, c, u)
            ELSE PathStart(b, c, u)
       ELSE IF B(0) = STAR THEN PathStart(b, c, u)
       ELSE IF is_alpha(B(0)) THEN
            LET fallback == SchemaStart(b, c, u)
            IN IF buflen >= 7 /\ B(0) = Lh /\ B(1) = Lt /\ B(2) = Lt /\ B(3) = Lp THEN
                    IF buflen >= 8 /\ B(4) = Ls /\ B(5) = COLON
                    THEN FastSchema(b, c, u, 5)
                    ELSE IF B(4) = COLON THEN FastSchema(b, c, u, 4)
                    ELSE fallback
               ELSE IF buflen >= 4 /\ B(0) = Lf /\ B(1) = Lt /\ B(2) = Lp
                       /\ B(3) = COLON
                    THEN FastSchema(b, c, u, 3)
               ELSE IF buflen >= 3 /\ B(0) = Lw /\ B(1) = Ls THEN
                    IF buflen >= 4 /\ B(2) = Ls /\ B(3) = COLON
                    THEN FastSchema(b, c, u, 3)
                    ELSE IF B(2) = COLON THEN FastSchema(b, c, u, 2)
                    ELSE fallback
               ELSE fallback
       ELSE dead

\* AnyInvalid that does not look at the last byte of the range
AnyInvalid_SkipLast(b, from, to) ==
    \E k \in from..(to - 2) : char_class_table(b[k + 1]) = "cc_invalid"

\* some byte of [from, to) has class cc_invalid
AnyInvalid(b, from, to) ==
    \E k \in from..(to - 1) : char_class_table(b[k + 1]) = "cc_invalid"

\* IterPath whose re-process step leaves the state s_path
IterPath_NoStateChange(s) ==
    LET b == s.buf
        stops == {k \in s.i..(Len(b) - 1) : b[k + 1] \in {QUESTION, HASH}}
        j == IF stops = {} THEN Len(b)
             ELSE CHOOSE k \in stops : \A m \in stops : k <= m
    IN IF j > s.i THEN
            IF j < Len(b) THEN Continue([s EXCEPT !.i = j - 1])
            ELSE BreakAtEnd(s)
       ELSE Continue([s EXCEPT !.i = s.i - 1])

\* lines 2111-2153: state s_path
IterPath(s) ==
    LET b == s.buf
        buflen == Len(b)
        stops == {k \in s.i..(buflen - 1) :
                    b[k + 1] \in {QUESTION, HASH}
                    \/ char_class_table(b[k + 1]) = "cc_invalid"}
        j == IF stops = {} THEN buflen
             ELSE CHOOSE k \in stops : \A m \in stops : k <= m
    IN IF j < buflen /\ b[j + 1] \notin {QUESTION, HASH} THEN Fail(s)
       ELSE IF j > s.i THEN
            IF j < buflen THEN Continue([s EXCEPT !.i = j - 1])
            ELSE BreakAtEnd(s)
       ELSE \* the delimiter is at i: save the path, re-process the byte
            Continue([s EXCEPT !.u = SetData(s.u, s.field, s.field_start,
                                             s.i - s.field_start),
                               !.state = "s_query_or_fragment",
                               !.i = s.i - 1])

\* IterQuery that does not end the query at '#'
IterQuery_NoHashSplit(s) ==
    IF AnyInvalid(s.buf, s.i, Len(s.buf)) THEN Fail(s) ELSE BreakAtEnd(s)

\* lines 2156-2194: state s_query
IterQuery(s) ==
    LET b == s.buf
        buflen == Len(b)
        hash_idx == memchr(b, s.i, HASH, buflen - s.i, NUL)
    IN IF hash_idx # -1 THEN
            IF AnyInvalid(b, s.i, hash_idx) THEN Fail(s)
            ELSE Continue([s EXCEPT
                     !.u = mark_field(SetData(s.u, s.field, s.field_start,
                                              hash_idx - s.field_start),
                                      "UF_FRAGMENT"),
                     !.field = "UF_FRAGMENT",
                     !.field_start = hash_idx + 1,
                     !.state = "s_fragment",
                     !.i = hash_idx])
       ELSE IF AnyInvalid(b, s.i, buflen) THEN Fail(s)
       ELSE BreakAtEnd(s)

\* IterFragment that skips to the end without looking at the bytes
IterFragment_NoScan(s) == Continue([s EXCEPT !.i = Len(s.buf) - 1])

\* lines 2197-2210: state s_fragment
IterFragment(s) ==
    IF AnyInvalid(s.buf, s.i, Len(s.buf)) THEN Fail(s)
    ELSE Continue([s EXCEPT !.i = Len(s.buf) - 1])

\* lines 2213-2236: state s_schema, driven by url_state_table
IterSchema(s, ch) ==
    LET next_state == SchemaRow(char_class_table(ch))
    IN IF next_state = "STAY" THEN Continue(s)
       ELSE IF next_state = "s_dead" THEN Fail(s)
       ELSE Continue([s EXCEPT !.u = SetData(s.u, s.field, s.field_start,
                                             s.i - s.field_start),
                               !.state = next_state])

\* lines 2258-2264
IterSchemaSlash(s, ch) ==
    IF ch = SLASH THEN Continue([s EXCEPT !.state = "s_schema_slash_slash"])
    ELSE Fail(s)

\* lines 2266-2272
IterSchemaSlashSlash(s, ch) ==
    IF ch = SLASH THEN Continue([s EXCEPT !.state = "s_server_start"])
    ELSE Fail(s)

\* IterQueryOrFragment with the field begun at the delimiter, not after it
IterQueryOrFragment_AtDelim(s, ch) ==
    IF ch = QUESTION THEN
         Continue([s EXCEPT !.field = "UF_QUERY", !.field_start = s.i,
                            !.u = mark_field(s.u, "UF_QUERY"),
                            !.state = "s_query"])
    ELSE IF ch = HASH THEN
         Continue([s EXCEPT !.field = "UF_FRAGMENT", !.field_start = s.i,
                            !.u = mark_field(s.u, "UF_FRAGMENT"),
                            !.state = "s_fragment"])
    ELSE Fail(s)

\* IterQueryOrFragment that takes the byte and keeps the state
IterQueryOrFragment_Stay(s, ch) == Continue(s)

\* lines 2417-2431
IterQueryOrFragment(s, ch) ==
    IF ch = QUESTION THEN
         Continue([s EXCEPT !.field = "UF_QUERY", !.field_start = s.i + 1,
                            !.u = mark_field(s.u, "UF_QUERY"),
                            !.state = "s_query"])
    ELSE IF ch = HASH THEN
         Continue([s EXCEPT !.field = "UF_FRAGMENT", !.field_start = s.i + 1,
                            !.u = mark_field(s.u, "UF_FRAGMENT"),
                            !.state = "s_fragment"])
    ELSE Fail(s)

\* the bytes that end the batch scan of the authority
ServerDelims == {AT, LBRACKET, COLON, SLASH, QUESTION, HASH}

\* ServerBracket with the test of the bytes between the brackets left out
ServerBracket_NoByteCheck(s) ==
    LET b == s.buf
        i1 == s.i + 1
        bracket_pos == memchr(b, i1, RBRACKET, Len(b) - i1, NUL)
    IN IF bracket_pos = -1 THEN Fail(s)
       ELSE Continue([s EXCEPT !.i = bracket_pos, !.bracket_depth = 0])

\* lines 2354-2395: '[' seen at i, the bracketed literal is consumed in one go
ServerBracket(s) ==
    LET b == s.buf
        buflen == Len(b)
        i1 == s.i + 1
        bracket_pos == memchr(b, i1, RBRACKET, buflen - i1, NUL)
        zone_pos == memchr(b, i1, PERCENT, bracket_pos - i1, NUL)
        upto == IF zone_pos # -1 THEN zone_pos ELSE bracket_pos
        badchar == \E k \in i1..(upto - 1) :
                      LET c == b[k + 1]
                      IN ~IS_HEX(c) /\ c # COLON /\ c # DOT
    IN IF bracket_pos = -1 THEN Fail(s)
       ELSE IF badchar THEN Fail(s)
       ELSE Continue([s EXCEPT !.i = bracket_pos, !.bracket_depth = 0])

\* the userinfo recorded at '@': the bytes [field_start, i)
UserinfoAt(s) ==
    IF s.field = "UF_HOST"
    THEN [mark_field(SetData(s.u, "UF_USERINFO", s.field_start,
                             s.i - s.field_start), "UF_USERINFO")
          EXCEPT !.field_set = @ \ {"UF_HOST"}]
    ELSE s.u

\* ServerAt that keeps the colon seen in the userinfo
ServerAt_KeepColon(s) ==
    IF s.state = "s_server_with_at" THEN Fail(s)
    ELSE Continue([s EXCEPT !.u = mark_field(UserinfoAt(s), "UF_HOST"),
                            !.state = "s_server_with_at",
                            !.field_start = s.i + 1,
                            !.field = "UF_HOST",
                            !.bracket_depth = 0])

\* lines 2335-2353: '@' seen at i
ServerAt(s) ==
    IF s.state = "s_server_with_at" THEN Fail(s)
    ELSE Continue([s EXCEPT !.u = mark_field(UserinfoAt(s), "UF_HOST"),
                            !.state = "s_server_with_at",
                            !.field_start = s.i + 1,
                            !.field = "UF_HOST",
                            !.found_colon = FALSE,
                            !.port_start = 0,
                            !.bracket_depth = 0])

\* lines 2289-2415: case s_server / s_server_with_at, cursor byte ch
ServerBody(s, ch, g) ==
    LET b == s.buf
        buflen == Len(b)
        batch == s.bracket_depth = 0 /\ ch \notin ServerDelims /\ is_userinfo_char(ch)
        stops == {k \in (s.i + 1)..(buflen - 1) :
                    b[k + 1] \in ServerDelims \/ ~is_userinfo_char(b[k + 1])}
        j == IF stops = {} THEN buflen
             ELSE CHOOSE k \in stops : \A m \in stops : k <= m
        fin == finalize_host_with_port(s.u, b, s.field_start, s.i, s.port_start,
                                       s.found_colon, g)
    IN IF batch /\ j < buflen /\ b[j + 1] \notin ServerDelims THEN Fail(s)
       ELSE IF batch /\ j > s.i + 1 THEN Continue([s EXCEPT !.i = j - 1])
       ELSE IF ch = SLASH THEN
            IF ~fin.ok THEN Fail([s EXCEPT !.u = fin.u])
            ELSE Continue([s EXCEPT !.u = mark_field(fin.u, "UF_PATH"),
                                    !.field = "UF_PATH", !.field_start = s.i,
                                    !.state = "s_path"])
       ELSE IF ch = QUESTION THEN
            IF ~fin.ok THEN Fail([s EXCEPT !.u = fin.u])
            ELSE Continue([s EXCEPT !.u = mark_field(fin.u, "UF_QUERY"),
                                    !.field = "UF_QUERY", !.field_start = s.i + 1,
                                    !.state = "s_query"])
       ELSE IF ch = AT THEN ServerAt(s)
       ELSE IF ch = LBRACKET THEN ServerBracket(s)
       ELSE IF ch = RBRACKET THEN
            IF s.bracket_depth - 1 < 0 THEN Fail(s)
            ELSE Continue([s EXCEPT !.bracket_depth = @ - 1])
       ELSE IF ch = COLON THEN
            IF s.bracket_depth = 0 /\ ~s.found_colon
            THEN Continue([s EXCEPT !.found_colon = TRUE, !.port_start = s.i + 1])
            ELSE Continue(s)
       ELSE IF ~is_userinfo_char(ch) THEN Fail(s)
       ELSE Continue(s)

\* IterServerStart without the test for an empty host
IterServerStart_NoEmptyCheck(s, ch, g) ==
    ServerBody([s EXCEPT !.field = "UF_HOST", !.field_start = s.i,
                         !.u = mark_field(s.u, "UF_HOST"),
                         !.state = "s_server", !.found_colon = FALSE,
                         !.port_start = 0, !.bracket_depth = 0], ch, g)

\* lines 2274-2287: case s_server_start, falling through into s_server
IterServerStart(s, ch, g) ==
    LET s1 == [s EXCEPT !.field = "UF_HOST", !.field_start = s.i,
                        !.u = mark_field(s.u, "UF_HOST"),
                        !.state = "s_server", !.found_colon = FALSE,
                        !.port_start = 0, !.bracket_depth = 0]
    IN IF s.i >= Len(s.buf) \/ ch \in {SLASH, QUESTION, HASH} THEN Fail(s1)
       ELSE ServerBody(s1, ch, g)

\* one pass through the loop body at start_parsing; g is the byte a read
\* outside the buffer yields
Iter(s, g) ==
    LET ch == At(s.buf, s.i, g)
    IN CASE s.state = "s_path" -> IterPath(s)
         [] s.state = "s_query" -> IterQuery(s)
         [] s.state = "s_fragment" -> IterFragment(s)
         [] s.state = "s_schema" -> IterSchema(s, ch)
         [] s.state = "s_schema_slash" -> IterSchemaSlash(s, ch)
         [] s.state = "s_schema_slash_slash" -> IterSchemaSlashSlash(s, ch)
         [] s.state = "s_server_start" -> IterServerStart(s, ch, g)
         [] s.state \in {"s_server", "s_server_with_at"} -> ServerBody(s, ch, g)
         [] s.state = "s_query_or_fragment" -> IterQueryOrFragment(s, ch)

\* FinalField with the length of path, query and fragment one too long
FinalField_LenOffByOne(s, g) ==
    IF s.field = "UF_MAX" THEN [ok |-> TRUE, u |-> s.u]
    ELSE IF s.field = "UF_HOST"
         THEN finalize_host_with_port(s.u, s.buf, s.field_start, s.i, s.port_start,
                                      s.found_colon, g)
    ELSE [ok |-> TRUE,
          u |-> SetData(s.u, s.field, s.field_start, s.i - s.field_start + 1)]

\* FinalField that leaves path, query and fragment as they were
FinalField_NoFlush(s, g) ==
    IF s.field = "UF_HOST"
    THEN finalize_host_with_port(s.u, s.buf, s.field_start, s.i, s.port_start,
                                 s.found_colon, g)
    ELSE [ok |-> TRUE, u |-> s.u]

\* lines 2438-2455: the final field
FinalField(s, g) ==
    IF s.field = "UF_MAX" THEN [ok |-> TRUE, u |-> s.u]
    ELSE IF s.field = "UF_HOST"
         THEN finalize_host_with_port(s.u, s.buf, s.field_start, s.i, s.port_start,
                                      s.found_colon, g)
    ELSE IF s.field \in {"UF_PATH", "UF_QUERY", "UF_FRAGMENT"}
            \/ s.field \notin s.u.field_set
         THEN [ok |-> TRUE,
               u |-> SetData(s.u, s.field, s.field_start, s.i - s.field_start)]
    ELSE [ok |-> TRUE, u |-> s.u]

\* PostChecks without the test of the final state in CONNECT mode
PostChecks_NoStateCheck(s, u, g) ==
    /\ IF s.is_connect
       THEN "UF_PORT" \in u.field_set
       ELSE ~("UF_SCHEMA" \in u.field_set /\ "UF_HOST" \notin u.field_set)
    /\ "UF_HOST" \in u.field_set =>
          validate_host_percent_encoding(s.buf, u.field_data["UF_HOST"].off,
                                         u.field_data["UF_HOST"].len, g)

\* PostChecks without the schema-without-host test
PostChecks_NoSchemaCheck(s, u, g) ==
    /\ s.is_connect =>
            /\ s.state \in {"s_server", "s_server_with_at"}
            /\ "UF_PORT" \in u.field_set
    /\ "UF_HOST" \in u.field_set =>
          validate_host_percent_encoding(s.buf, u.field_data["UF_HOST"].off,
                                         u.field_data["UF_HOST"].len, g)

\* lines 2457-2480: the checks after the loop; TRUE when the call returns 0
PostChecks(s, u, g) ==
    /\ IF s.is_connect
       THEN /\ s.state \in {"s_server", "s_server_with_at"}
            /\ "UF_PORT" \in u.field_set
       ELSE ~("UF_SCHEMA" \in u.field_set /\ "UF_HOST" \notin u.field_set)
    /\ "UF_HOST" \in u.field_set =>
          validate_host_percent_encoding(s.buf, u.field_data["UF_HOST"].off,
                                         u.field_data["UF_HOST"].len, g)

\* lines 2438-2481: from the loop exit to the return
Finish(s, g) ==
    LET ff == FinalField(s, g)
    IN IF ~ff.ok THEN Fail([s EXCEPT !.u = ff.u])
       ELSE IF PostChecks(s, ff.u, g)
            THEN [s EXCEPT !.u = ff.u, !.pc = "done", !.ret = 0]
            ELSE Fail([s EXCEPT !.u = ff.u])

\* one step of a call
Step(s, g) == IF s.pc = "loop" THEN Iter(s, g) ELSE Finish(s, g)

RECURSIVE Run(_, _)
\* the call run to its return
Run(s, g) == IF s.pc = "done" THEN s ELSE Run(Step(s, g), g)

\* http_parser_parse_url(buf, buflen, is_connect, u): the frame at the return
http_parser_parse_url(b, c, u, g) == Run(Enter(b, c, u), g)

(* ------------------------------------------------------------------ *)
(* The byte-at-a-time driver of the table-driven variant                *)
(* ------------------------------------------------------------------ *)
\* lines 611-658: in s_path, s_query and s_fragment the byte at i is looked
\* up in url_state_table; every other state is handled as in the loop above
TableIter(s, g) ==
    LET ch == At(s.buf, s.i, g)
        next_state == url_state_table(s.state, char_class_table(ch))
        saved == SetData(s.u, s.field, s.field_start, s.i - s.field_start)
    IN IF s.state \notin {"s_path", "s_query", "s_fragment"} THEN Iter(s, g)
       ELSE IF next_state = "STAY" THEN Continue(s)
       ELSE IF next_state = "s_dead" THEN Fail(s)
       ELSE IF s.state = "s_path" /\ next_state = "s_query_or_fragment" THEN
            Continue([s EXCEPT !.u = saved, !.state = next_state, !.i = s.i - 1])
       ELSE IF s.state = "s_query" /\ next_state = "s_fragment" THEN
            Continue([s EXCEPT !.u = mark_field(saved, "UF_FRAGMENT"),
                               !.field = "UF_FRAGMENT",
                               !.field_start = s.i + 1,
                               !.state = next_state])
       ELSE Continue([s EXCEPT !.state = next_state])

RECURSIVE TableRun(_, _)
\* the call run to its return, one byte per step in path, query and fragment
TableRun(s, g) ==
    IF s.pc = "done" THEN s
    ELSE TableRun(IF s.pc = "loop" THEN TableIter(s, g) ELSE Finish(s, g), g)

(* ------------------------------------------------------------------ *)
(* The inputs explored                                                 *)
(* ------------------------------------------------------------------ *)
DIGIT1 == 49

\* every byte string of length <= MaxLen over Alphabet is tried
MaxLen == 3

\* one byte of each kind the authority code distinguishes, one ASCII byte of
\* class cc_invalid and one byte >= 128
Alphabet == {La, DIGIT1, COLON, SLASH, QUESTION, HASH, AT, LBRACKET, RBRACKET,
             PERCENT, SPACE, HIGH}

Short == UNION {[1..n -> Alphabet] : n \in 0..MaxLen}

S_http == <<Lh, Lt, Lt, Lp>>
S_https == <<Lh, Lt, Lt, Lp, Ls>>
S_ftp == <<Lf, Lt, Lp>>
S_ws == <<Lw, Ls>>
S_wss == <<Lw, Ls, Ls>>
\* "g+1": a scheme no fast path knows
S_other == <<Lg, 43, DIGIT1>>

Schemes == {S_http, S_https, S_ftp, S_ws, S_wss, S_other}

ColonSlashSlash == <<COLON, SLASH, SLASH>>

\* prefixes put before the short strings (non-CONNECT calls)
Prefixes == {<<>>, <<SLASH, SLASH>>, S_http \o ColonSlashSlash}

\* userinfo, with its '@'; <<>> is "no userinfo"
Userinfos == {<<>>, <<La, AT>>, <<La, COLON, DIGIT1, PERCENT, AT>>}

Hosts == {<<La>>, <<Lg, DOT, La>>, <<LBRACKET, COLON, COLON, DIGIT1, RBRACKET>>,
          <<LBRACKET, La, PERCENT, Lg, RBRACKET>>}

\* ports, with their ':'; <<>> is "no port"
Ports == {<<>>, <<COLON, 56, 48>>}

\* 0, 00080, 443, 8080, 65535, 65536, 70000, 99999, 123456, 8a, 0000a, 80:80
PortDigits == {<<48>>, <<48, 48, 48, 56, 48>>, <<52, 52, 51>>, <<56, 48, 56, 48>>,
               <<54, 53, 53, 51, 53>>, <<54, 53, 53, 51, 54>>,
               <<55, 48, 48, 48, 48>>, <<57, 57, 57, 57, 57>>,
               <<49, 50, 51, 52, 53, 54>>, <<56, La>>, <<48, 48, 48, 48, La>>,
               <<56, 48, COLON, 56, 48>>}

Paths == {<<>>, <<SLASH>>, <<SLASH, La, PIPE>>}

\* query and fragment, with their delimiter; <<>> is "absent"
Queries == {<<>>, <<QUESTION>>, <<QUESTION, La, QUESTION>>}

Fragments == {<<>>, <<HASH>>, <<HASH, La, HASH, QUESTION>>}

\* scheme "://" [userinfo "@"] host [":" port] path ["?" query] ["#" fragment]
Structured ==
    {sc \o ColonSlashSlash \o ui \o h \o po \o pa \o q \o f :
        sc \in Schemes, ui \in Userinfos, h \in Hosts, po \in Ports,
        pa \in Paths, q \in Queries, f \in Fragments}

\* host ":" port [ "/" ], the authority forms whose port varies
Authorities ==
    {h \o <<COLON>> \o pd \o t : h \in Hosts, pd \in PortDigits,
                                 t \in {<<>>, <<SLASH>>}}

\* a scheme and its ':' with nothing or too little after it
Bare == {sc \o t : sc \in Schemes,
                   t \in {<<COLON>>, <<COLON, SLASH>>, <<COLON, SLASH, SLASH>>,
                          <<COLON, SLASH, La>>}}

\* all seven components, the port varying
PortForms ==
    {S_ws \o ColonSlashSlash \o <<La, COLON, DIGIT1, PERCENT, AT>> \o <<Lg, DOT, La>>
       \o <<COLON>> \o pd \o <<SLASH, La, PIPE>> \o <<QUESTION, La, QUESTION>>
       \o <<HASH, La, HASH, QUESTION>> : pd \in PortDigits}

\* what stands where a scheme is expected, followed by "://a"
SchemeForms ==
    {s \o ColonSlashSlash \o <<La>> :
        s \in Short \cup {<<La, 45, DOT>>, <<La, 43>>, <<43, La>>, <<La, PIPE>>}}

\* authorities with a bracket whose '%' opens an unvalidated tail, with
\* bytes before the bracket and after it
ZoneAuth ==
    {pre \o <<LBRACKET>> \o z \o <<RBRACKET>> \o post :
        pre \in {<<>>, <<La>>, <<La, AT>>},
        z \in {<<PERCENT, HIGH>>, <<COLON, PERCENT, HIGH>>, <<COLON, PERCENT, AT>>,
               <<COLON, PERCENT, La, La>>, <<La, PERCENT, Lf, Lf>>},
        post \in {<<>>, <<AT, La>>, <<COLON, DIGIT1>>, <<AT, La, COLON, DIGIT1>>}}

\* inputs that start with '*' or '/'
RelForms ==
    {h \o pa \o q \o f :
        h \in {<<STAR>>, <<SLASH>>}, pa \in {<<>>, <<La>>, <<SLASH, La>>},
        q \in Queries, f \in Fragments}

\* "[" X "]" and what may stand between the ']' and the end of the authority
BracketForms ==
    {<<LBRACKET>> \o x \o <<RBRACKET>> \o tl :
        x \in {<<>>, <<La>>, <<COLON, COLON, DIGIT1>>},
        tl \in {<<>>, <<La>>, <<COLON>>, <<COLON, DIGIT1>>, <<La, COLON, DIGIT1>>,
                <<RBRACKET>>, <<LBRACKET, COLON, COLON, DIGIT1, RBRACKET>>,
                <<LBRACKET, La, RBRACKET, COLON, DIGIT1>>, <<SLASH>>,
                <<COLON, DIGIT1, SLASH>>}}

\* "//" [userinfo "@"] host [":" port] path ["?" query] ["#" fragment]
SchemeRelativeForms ==
    {<<SLASH, SLASH>> \o ui \o <<Lg, DOT, La>> \o po \o pa \o q \o f :
        ui \in Userinfos, po \in Ports, pa \in Paths, q \in Queries,
        f \in Fragments}

\* '~' in the host and in the userinfo
TildeForms ==
    {<<SLASH, SLASH, La, TILDE>>, <<SLASH, SLASH, TILDE, AT, La>>,
     S_http \o ColonSlashSlash \o <<La, TILDE, SLASH>>}

\* b with byte c at index k (1-based)
Poke(b, k, c) == [b EXCEPT ![k] = c]

\* the bytes of class cc_invalid of each kind, and '|', '{', '}'
PokeBytes == {NUL, SPACE, 34, 60, 62, 92, 94, 96, 127, HIGH, PIPE, 123, 125}

PokeBases ==
    {<<SLASH, La, QUESTION, La, HASH, La>>,
     S_ws \o ColonSlashSlash \o <<La, AT, Lg, COLON, DIGIT1, SLASH, La, QUESTION, La,
                                  HASH, La>>}

\* a well-formed input with one byte overwritten
PokeForms ==
    UNION {{Poke(b, k, c) : k \in 1..Len(b), c \in PokeBytes} : b \in PokeBases}

\* an authority that holds, behind its '@' or ':', one of the bytes on which
\* the rows of s_server and s_server_with_at are read
TableForms ==
    {<<SLASH, SLASH, La, d, c>> :
        d \in {AT, COLON},
        c \in {PIPE, 123, 125, LBRACKET, RBRACKET, HASH, QUESTION}}

\* the (buf, is_connect) pairs a call is made with
Calls ==
    ({p \o s : p \in Prefixes, s \in Short} \X {FALSE})
    \cup (Short \X {TRUE})
    \cup (Structured \X {FALSE})
    \cup ({S_http \o ColonSlashSlash \o a : a \in Authorities} \X {FALSE})
    \cup (Authorities \X {TRUE})
    \cup (Bare \X {FALSE})
    \cup (PortForms \X {FALSE})
    \cup (SchemeForms \X {FALSE})
    \cup ({<<SLASH, SLASH>> \o a : a \in ZoneAuth} \X {FALSE})
    \cup (ZoneAuth \X {TRUE})
    \cup (RelForms \X {FALSE})
    \cup (PokeForms \X {FALSE})
    \cup (TildeForms \X {FALSE})
    \cup (SchemeRelativeForms \X {FALSE})
    \cup ({<<SLASH, SLASH>> \o a : a \in BracketForms} \X {FALSE})
    \cup (BracketForms \X {TRUE})
    \cup (TableForms \X {FALSE})

\* what a read outside the buffer may yield
Garbage == {NUL, SLASH, PERCENT}

(* ------------------------------------------------------------------ *)
(* The state machine                                                   *)
(* ------------------------------------------------------------------ *)
VARIABLES buf, is_connect, u, state, field, field_start, i, port_start,
          found_colon, bracket_depth, pc, ret, calls

vars == <<buf, is_connect, u, state, field, field_start, i, port_start,
          found_colon, bracket_depth, pc, ret, calls>>

\* the frame of the running call
Cur ==
    [buf |-> buf, is_connect |-> is_connect, u |-> u, state |-> state,
     field |-> field, field_start |-> field_start, i |-> i,
     port_start |-> port_start, found_colon |-> found_colon,
     bracket_depth |-> bracket_depth, pc |-> pc, ret |-> ret]

Assign(n) ==
    /\ buf' = n.buf
    /\ is_connect' = n.is_connect
    /\ u' = n.u
    /\ state' = n.state
    /\ field' = n.field
    /\ field_start' = n.field_start
    /\ i' = n.i
    /\ port_start' = n.port_start
    /\ found_colon' = n.found_colon
    /\ bracket_depth' = n.bracket_depth
    /\ pc' = n.pc
    /\ ret' = n.ret
    /\ UNCHANGED calls

\* the caller has a zeroed view (http_parser_url_init) and is about to call
InitWith(cs) ==
    /\ \E c \in cs : buf = c[1] /\ is_connect = c[2]
    /\ u = http_parser_url_init
    /\ state = "s_dead"
    /\ field = "UF_MAX"
    /\ field_start = 0
    /\ i = 0
    /\ port_start = 0
    /\ found_colon = FALSE
    /\ bracket_depth = 0
    /\ pc = "call"
    /\ ret = 0
    /\ calls = 1

Init == InitWith(Calls)

\* entry of http_parser_parse_url up to the loop
Call == pc = "call" /\ \E n \in {Enter(buf, is_connect, u)} : Assign(n)

InState(S) == pc = "loop" /\ state \in S

LoopSchema == InState({"s_schema"}) /\ \E n \in {Iter(Cur, g) : g \in Garbage} : Assign(n)

LoopSchemaSlash ==
    InState({"s_schema_slash", "s_schema_slash_slash"})
    /\ \E n \in {Iter(Cur, g) : g \in Garbage} : Assign(n)

LoopServerStart ==
    InState({"s_server_start"}) /\ \E n \in {Iter(Cur, g) : g \in Garbage} : Assign(n)

LoopServer ==
    InState({"s_server", "s_server_with_at"})
    /\ \E n \in {Iter(Cur, g) : g \in Garbage} : Assign(n)

LoopPath == InState({"s_path"}) /\ \E n \in {Iter(Cur, g) : g \in Garbage} : Assign(n)

LoopQueryOrFragment ==
    InState({"s_query_or_fragment"}) /\ \E n \in {Iter(Cur, g) : g \in Garbage} : Assign(n)

LoopQuery == InState({"s_query"}) /\ \E n \in {Iter(Cur, g) : g \in Garbage} : Assign(n)

LoopFragment == InState({"s_fragment"}) /\ \E n \in {Iter(Cur, g) : g \in Garbage} : Assign(n)

\* final field, post-checks, return
Return == pc = "final" /\ \E n \in {Finish(Cur, g) : g \in Garbage} : Assign(n)

Next ==
    \/ Call
    \/ LoopSchema
    \/ LoopSchemaSlash
    \/ LoopServerStart
    \/ LoopServer
    \/ LoopPath
    \/ LoopQueryOrFragment
    \/ LoopQuery
    \/ LoopFragment
    \/ Return

Spec == Init /\ [][Next]_vars

(* ------------------------------------------------------------------ *)
(* A caller that parses again into the same view without clearing it   *)
(* ------------------------------------------------------------------ *)
\* calls made on one view
MaxCalls == 2

ReuseCalls ==
    ({S_other \o ColonSlashSlash \o ui \o <<La>> \o po \o pa \o q \o f :
        ui \in Userinfos, po \in Ports, pa \in {<<>>, <<SLASH>>},
        q \in {<<>>, <<QUESTION, La, QUESTION>>}, f \in {<<>>, <<HASH, La>>}}
     \X {FALSE})
    \cup ({<<SLASH, La>>, <<STAR>>} \X {FALSE})
    \cup ({<<La, COLON, 56, 48>>, <<La>>} \X {TRUE})

InitReuse == InitWith(ReuseCalls)

\* the caller passes the view of the call that just returned to the next call
CallAgain ==
    /\ pc = "done"
    /\ calls < MaxCalls
    /\ \E c \in ReuseCalls : buf' = c[1] /\ is_connect' = c[2]
    /\ pc' = "call"
    /\ calls' = calls + 1
    /\ UNCHANGED <<u, state, field, field_start, i, port_start, found_colon,
                   bracket_depth, ret>>

NextReuse == Next \/ CallAgain

SpecReuse == InitReuse /\ [][NextReuse]_vars

(* ------------------------------------------------------------------ *)
(* Vocabulary of the properties                                        *)
(* ------------------------------------------------------------------ *)
Done == pc = "done"

Accepted == pc = "done" /\ ret = 0

Present(f) == f \in u.field_set

Off(f) == u.field_data[f].off

FLen(f) == u.field_data[f].len

\* the index just past field f
End(f) == Off(f) + FLen(f)

\* the bytes of buf in [from, to)
Slice(b, from, to) == [k \in 1..(to - from) |-> b[from + k]]

(* ------------------------------------------------------------------ *)
(* C1: on success every present field lies inside the input:           *)
(* off + len <= buflen, the empty query or fragment at off = buflen    *)
(* and the host and port of the host finalizer included.               *)
(* ------------------------------------------------------------------ *)
C1_FieldsInBounds ==
    Accepted => \A f \in u.field_set : Off(f) >= 0 /\ FLen(f) >= 0 /\ End(f) <= Len(buf)

\* an accepted URL with host and port from the finalizer and an empty query
\* recorded at off = buflen
C1_Witness ==
    /\ Accepted
    /\ Present("UF_HOST") /\ Present("UF_PORT") /\ Present("UF_QUERY")
    /\ Off("UF_QUERY") = Len(buf) /\ FLen("UF_QUERY") = 0
    /\ End("UF_PORT") = Len(buf) - 1

(* ------------------------------------------------------------------ *)
(* C2: the view left by a successful call equals the view of the same  *)
(* call made on a freshly zeroed view, whatever calls the view went    *)
(* through before: no presence bit, offset or port survives.           *)
(* ------------------------------------------------------------------ *)
FreshCall == http_parser_parse_url(buf, is_connect, http_parser_url_init, NUL)

C2_ResultIndependentOfPriorView ==
    Done => /\ ret = FreshCall.ret
            /\ ret = 0 => u = FreshCall.u

(* ------------------------------------------------------------------ *)
(* The components of an input, read off the bytes alone                *)
(* ------------------------------------------------------------------ *)
Min(S) == CHOOSE k \in S : \A m \in S : k <= m

\* index of the first byte c at or after from, Len(b) when there is none
IndexOf(b, c, from) ==
    LET hits == {k \in from..(Len(b) - 1) : b[k + 1] = c}
    IN IF hits = {} THEN Len(b) ELSE Min(hits)

AllDigits(b, from, to) == \A k \in from..(to - 1) : IsDigitByte(b[k + 1])

RECURSIVE DecValue(_, _, _)
\* the base-10 value of the digits in [from, to)
DecValue(b, from, to) ==
    IF to <= from THEN 0 ELSE DecValue(b, from, to - 1) * 10 + (b[to] - 48)

\* [from, to) is 1 to 5 digits decoding to at most 65535
ValidPortSpan(b, from, to) ==
    /\ to - from >= 1 /\ to - from <= 5
    /\ AllDigits(b, from, to)
    /\ DecValue(b, from, to) <= 65535

\* [0, e) is ALPHA (ALPHA | DIGIT | "+" | "-" | ".")*
SchemeGrammar(b, e) ==
    /\ e >= 1
    /\ IsAlphaByte(b[1])
    /\ \A k \in 1..(e - 1) :
          IsAlphaByte(b[k + 1]) \/ IsDigitByte(b[k + 1]) \/ b[k + 1] \in {43, 45, 46}

\* where the authority starts, -1 when the input has none
AuthStart(b, c) ==
    LET e == IndexOf(b, COLON, 0)
    IN IF c THEN 0
       ELSE IF Len(b) >= 2 /\ b[1] = SLASH /\ b[2] = SLASH THEN 2
       ELSE IF Len(b) >= 1 /\ IsAlphaByte(b[1]) /\ e + 2 < Len(b)
               /\ b[e + 2] = SLASH /\ b[e + 3] = SLASH
            THEN e + 3
       ELSE -1

RECURSIVE OutsideSet(_, _, _)
\* the indices >= k that lie outside brackets, a '[' being closed by the
\* next ']'
OutsideSet(b, k, inside) ==
    IF k >= Len(b) THEN {}
    ELSE IF inside THEN OutsideSet(b, k + 1, b[k + 1] # RBRACKET)
    ELSE IF b[k + 1] = LBRACKET THEN OutsideSet(b, k + 1, TRUE)
    ELSE {k} \cup OutsideSet(b, k + 1, FALSE)

\* the authority ends at the first unbracketed '/', '?' or '#', or at the end
AuthEnd(b, a) ==
    LET ends == {k \in OutsideSet(b, a, FALSE) : b[k + 1] \in {SLASH, QUESTION, HASH}}
    IN IF ends = {} THEN Len(b) ELSE Min(ends)

\* the host part starts after the '@' of the authority, if it has one
HostStart(b, a) ==
    LET e == AuthEnd(b, a)
        ats == {k \in OutsideSet(b, a, FALSE) : k < e /\ b[k + 1] = AT}
    IN IF ats = {} THEN a ELSE Min(ats) + 1

\* the first unbracketed ':' of the host part, -1 when there is none
HostColon(b, a) ==
    LET e == AuthEnd(b, a)
        h == HostStart(b, a)
        cs == {k \in OutsideSet(b, a, FALSE) : k >= h /\ k < e /\ b[k + 1] = COLON}
    IN IF cs = {} THEN -1 ELSE Min(cs)

A0 == AuthStart(buf, is_connect)

(* ------------------------------------------------------------------ *)
(* C3: a non-CONNECT input S "://" U "@" H ":" P PATH "?" Q "#" F with *)
(* well-formed components is accepted with all seven fields present,   *)
(* each selecting exactly its component, and the port decoded.         *)
(* ------------------------------------------------------------------ *)
\* the component boundaries of such an input
F_s == IndexOf(buf, COLON, 0)
F_at == IndexOf(buf, AT, F_s + 3)
F_hc == IndexOf(buf, COLON, F_at + 1)
F_p == IndexOf(buf, SLASH, F_hc + 1)
F_q == IndexOf(buf, QUESTION, F_p)
F_h == IndexOf(buf, HASH, F_q + 1)

FullForm ==
    /\ F_h < Len(buf)
    /\ SchemeGrammar(buf, F_s)
    /\ buf[F_s + 2] = SLASH /\ buf[F_s + 3] = SLASH
    /\ F_at > F_s + 3
    /\ \A k \in (F_s + 3)..(F_at - 1) : is_userinfo_char(buf[k + 1])
    /\ F_hc > F_at + 1
    /\ \A k \in (F_at + 1)..(F_hc - 1) :
          is_userinfo_char(buf[k + 1]) /\ buf[k + 1] # PERCENT
    /\ ValidPortSpan(buf, F_hc + 1, F_p)
    /\ \A k \in F_p..(Len(buf) - 1) : char_class_table(buf[k + 1]) # "cc_invalid"
    /\ \A k \in F_p..(F_q - 1) : buf[k + 1] # HASH

C3_FullUrlAllFields ==
    (Done /\ ~is_connect /\ FullForm) =>
        /\ ret = 0
        /\ u.field_set = Fields
        /\ Off("UF_SCHEMA") = 0 /\ End("UF_SCHEMA") = F_s
        /\ Off("UF_USERINFO") = F_s + 3 /\ End("UF_USERINFO") = F_at
        /\ Off("UF_HOST") = F_at + 1 /\ End("UF_HOST") = F_hc
        /\ Off("UF_PORT") = F_hc + 1 /\ End("UF_PORT") = F_p
        /\ u.port = DecValue(buf, F_hc + 1, F_p)
        /\ Off("UF_PATH") = F_p /\ End("UF_PATH") = F_q
        /\ Off("UF_QUERY") = F_q + 1 /\ End("UF_QUERY") = F_h
        /\ Off("UF_FRAGMENT") = F_h + 1 /\ End("UF_FRAGMENT") = Len(buf)

\* such an input, through the https fast path, its userinfo holding a ':',
\* has returned
C3_Witness ==
    /\ Done /\ ~is_connect /\ FullForm
    /\ F_s = 5
    /\ \E k \in (F_s + 3)..(F_at - 1) : buf[k + 1] = COLON
    /\ FLen("UF_QUERY") > 0 /\ FLen("UF_FRAGMENT") > 0

(* ------------------------------------------------------------------ *)
(* C4: in CONNECT mode a successful parse has host and port present    *)
(* and none of path, query, fragment.                                  *)
(* ------------------------------------------------------------------ *)
C4_ConnectHostPortOnly ==
    (Accepted /\ is_connect) =>
        /\ Present("UF_HOST") /\ Present("UF_PORT")
        /\ u.field_set \cap {"UF_PATH", "UF_QUERY", "UF_FRAGMENT"} = {}

C4_Witness == Accepted /\ is_connect /\ Present("UF_PORT") /\ FLen("UF_HOST") > 0

(* ------------------------------------------------------------------ *)
(* C5: in non-CONNECT mode a successful parse with the scheme present  *)
(* has the host present; "http:", "http://" and "http:/a" are rejected. *)
(* ------------------------------------------------------------------ *)
SchemeOnly ==
    {S_http \o <<COLON>>, S_http \o ColonSlashSlash, S_http \o <<COLON, SLASH, La>>}

C5_SchemeImpliesHost ==
    /\ (Accepted /\ ~is_connect /\ Present("UF_SCHEMA")) => Present("UF_HOST")
    /\ (Done /\ ~is_connect /\ buf \in SchemeOnly) => ret = 1

\* a URL with a scheme and a host has been accepted
C5_Witness ==
    /\ Accepted /\ ~is_connect /\ Present("UF_SCHEMA")
    /\ FLen("UF_HOST") > 0 /\ Present("UF_PATH")

(* ------------------------------------------------------------------ *)
(* C6: on success with the port present, the port field is 1 to 5      *)
(* decimal digits and the stored port is their base-10 value, which is *)
(* at most 65535.                                                      *)
(* ------------------------------------------------------------------ *)
C6_PortDigitsAndValue ==
    (Accepted /\ Present("UF_PORT")) =>
        /\ ValidPortSpan(buf, Off("UF_PORT"), End("UF_PORT"))
        /\ u.port <= 65535
        /\ u.port = DecValue(buf, Off("UF_PORT"), End("UF_PORT"))

\* a five-digit port with leading zeros has been decoded
C6_Witness ==
    /\ Accepted /\ Present("UF_PORT")
    /\ FLen("UF_PORT") = 5 /\ buf[Off("UF_PORT") + 1] = 48 /\ u.port = 80

(* ------------------------------------------------------------------ *)
(* C7: parse fails whenever the bytes between the first unbracketed    *)
(* ':' of the host part and the end of the authority are non-empty and *)
(* not a valid port; ports 65535 and 0 are accepted.                   *)
(* ------------------------------------------------------------------ *)
BadPortCase ==
    /\ A0 # -1
    /\ HostColon(buf, A0) # -1
    /\ HostColon(buf, A0) + 1 < AuthEnd(buf, A0)
    /\ ~ValidPortSpan(buf, HostColon(buf, A0) + 1, AuthEnd(buf, A0))

C7_BadPortRejected ==
    /\ (Done /\ BadPortCase) => ret = 1
    /\ (Done /\ is_connect /\ buf = <<La, COLON, 54, 53, 53, 51, 53>>)
          => (ret = 0 /\ u.port = 65535)
    /\ (Done /\ is_connect /\ buf = <<La, COLON, 48>>) => (ret = 0 /\ u.port = 0)

\* the port 65536 after a host that passes every other check: rejected
C7_Witness ==
    /\ Done /\ ret = 1 /\ BadPortCase
    /\ Slice(buf, HostColon(buf, A0) + 1, AuthEnd(buf, A0)) = <<54, 53, 53, 51, 54>>
    /\ state \in {"s_server", "s_server_with_at"}

(* ------------------------------------------------------------------ *)
(* C8: parse fails when the port is empty: the host is followed by ':' *)
(* and the authority ends right after that colon, in both modes.       *)
(* ------------------------------------------------------------------ *)
EmptyPortCase ==
    /\ A0 # -1
    /\ HostColon(buf, A0) # -1
    /\ HostColon(buf, A0) + 1 = AuthEnd(buf, A0)

C8_EmptyPortRejected == (Done /\ EmptyPortCase) => ret = 1

(* ------------------------------------------------------------------ *)
(* C9: on success, when the host part of the authority begins with     *)
(* '[', the host field starts just after that '[' and ends just before *)
(* its matching ']'.                                                   *)
(* ------------------------------------------------------------------ *)
H0 == HostStart(buf, A0)

HostBracketed == A0 # -1 /\ H0 < Len(buf) /\ buf[H0 + 1] = LBRACKET

Range(f) == Off(f)..(End(f) - 1)

C10_FieldsDisjoint ==
    Accepted =>
        /\ \A f1, f2 \in u.field_set : f1 # f2 => Range(f1) \cap Range(f2) = {}
        /\ (Present("UF_USERINFO") /\ Present("UF_HOST")) =>
              End("UF_USERINFO") < Off("UF_HOST")
        /\ (Present("UF_PORT") /\ Present("UF_HOST")) =>
              Off("UF_PORT") > End("UF_HOST")
        /\ Present("UF_SCHEMA") =>
              /\ buf[End("UF_SCHEMA") + 1] = COLON
              /\ \A f \in u.field_set : End("UF_SCHEMA") \notin Range(f)
        /\ Present("UF_USERINFO") =>
              /\ buf[End("UF_USERINFO") + 1] = AT
              /\ \A f \in u.field_set : End("UF_USERINFO") \notin Range(f)

\* all seven fields present, none of them empty
C10_Witness ==
    Accepted /\ u.field_set = Fields /\ \A f \in Fields : FLen(f) > 0

(* ------------------------------------------------------------------ *)
(* C11: on success with the scheme present, the scheme field starts at *)
(* offset 0, is non-empty, is ALPHA followed by ALPHA, DIGIT, '+', '-' *)
(* or '.', and the three bytes right after it are "://".               *)
(* ------------------------------------------------------------------ *)
C11_SchemeShape ==
    (Accepted /\ Present("UF_SCHEMA")) =>
        /\ Off("UF_SCHEMA") = 0
        /\ FLen("UF_SCHEMA") > 0
        /\ SchemeGrammar(buf, End("UF_SCHEMA"))
        /\ End("UF_SCHEMA") + 3 <= Len(buf)
        /\ Slice(buf, End("UF_SCHEMA"), End("UF_SCHEMA") + 3) = ColonSlashSlash

\* a scheme that no fast path knows, holding '-' and '.', has been accepted
C11_Witness ==
    /\ Accepted /\ Present("UF_SCHEMA")
    /\ Slice(buf, 0, End("UF_SCHEMA")) = <<La, 45, DOT>>

(* ------------------------------------------------------------------ *)
(* C13: parse fails when the authority is opened, by "://" after a     *)
(* scheme or by a leading "//", and the next position is '/', '?',     *)
(* '#' or the end of the input.                                        *)
(* ------------------------------------------------------------------ *)
EmptyHostCase ==
    /\ ~is_connect
    /\ A0 # -1
    /\ (A0 = Len(buf) \/ buf[A0 + 1] \in {SLASH, QUESTION, HASH})

C13_EmptyHostRejected == (Done /\ EmptyHostCase) => ret = 1

\* "//" followed by '?', rejected in s_server_start
C13_Witness ==
    /\ Done /\ ret = 1 /\ EmptyHostCase
    /\ A0 < Len(buf) /\ buf[A0 + 1] = QUESTION
    /\ state = "s_server"

(* ------------------------------------------------------------------ *)
(* C12: parse fails on every input whose authority contains two '@'    *)
(* bytes.                                                              *)
(* ------------------------------------------------------------------ *)
AtsOfAuthority == {k \in A0..(AuthEnd(buf, A0) - 1) : buf[k + 1] = AT}

TwoAtCase == A0 # -1 /\ Cardinality(AtsOfAuthority) >= 2

C12_DoubleAtRejected == (Done /\ TwoAtCase) => ret = 1

(* ------------------------------------------------------------------ *)
(* C14: on success with the host present and the host part not         *)
(* beginning with '[', the host field is non-empty, also after a       *)
(* userinfo '@' and directly before a port.                            *)
(* ------------------------------------------------------------------ *)
C14_HostNonEmpty ==
    (Accepted /\ Present("UF_HOST") /\ ~HostBracketed) => FLen("UF_HOST") > 0

(* ------------------------------------------------------------------ *)
(* C15: on success with the host present and the host part not         *)
(* beginning with '[', every byte of the host field is a USERINFO byte *)
(* and none is '@', '[', ']', ':', '/', '?' or '#'.                    *)
(* ------------------------------------------------------------------ *)
C15_HostBytes ==
    (Accepted /\ Present("UF_HOST") /\ ~HostBracketed) =>
        \A k \in Range("UF_HOST") :
            /\ is_userinfo_char(buf[k + 1])
            /\ buf[k + 1] \notin {AT, LBRACKET, RBRACKET, COLON, SLASH, QUESTION, HASH}

(* ------------------------------------------------------------------ *)
(* C16: parse fails on every input that holds a byte >= 128, unless    *)
(* that byte lies inside a bracketed host between a '%' and the        *)
(* closing ']'.                                                        *)
(* ------------------------------------------------------------------ *)
\* index k lies in the bracketed host, after a '%' and before the ']'
InZoneTail(k) ==
    /\ HostBracketed
    /\ k < IndexOf(buf, RBRACKET, H0 + 1)
    /\ IndexOf(buf, RBRACKET, H0 + 1) < Len(buf)
    /\ \E p \in (H0 + 1)..(k - 1) : buf[p + 1] = PERCENT

HighByteCase == \E k \in 0..(Len(buf) - 1) : buf[k + 1] >= 128 /\ ~InZoneTail(k)

C16_HighByteRejected == (Done /\ HighByteCase) => ret = 1

(* ------------------------------------------------------------------ *)
(* C17: parse fails whenever the path, query or fragment body holds a  *)
(* byte of class invalid (a control, space, '"', '<', '>', '\', '^',   *)
(* '`', DEL, a byte >= 128) at any position, the last byte of the      *)
(* input and the byte right after '?' or '#' included; '|', '{' and    *)
(* '}' are accepted there.                                             *)
(* ------------------------------------------------------------------ *)
InvalidByte(c) == c <= 32 \/ c \in {34, 60, 62, 92, 94, 96, 127} \/ c >= 128

\* the input starts with '*' or with a '/' that no second '/' follows
RelStart ==
    /\ ~is_connect /\ Len(buf) > 0
    /\ \/ buf[1] = STAR
       \/ buf[1] = SLASH /\ ~(Len(buf) >= 2 /\ buf[2] = SLASH)

\* where path, query and fragment start: at 0, or where the authority ends
BodyStart == IF RelStart THEN 0 ELSE IF A0 # -1 THEN AuthEnd(buf, A0) ELSE Len(buf)

InvalidInBody ==
    ~is_connect /\ \E k \in BodyStart..(Len(buf) - 1) : InvalidByte(buf[k + 1])

PokeBase1 == <<SLASH, La, QUESTION, La, HASH, La>>

C17_InvalidBodyByteRejected ==
    /\ (Done /\ InvalidInBody) => ret = 1
    /\ (Done /\ ~is_connect
          /\ buf \in {Poke(PokeBase1, k, c) : k \in {2, 4, 6}, c \in {PIPE, 123, 125}})
       => ret = 0

\* a space as the last byte of the fragment: rejected by the fragment scan
C17_Witness ==
    /\ Done /\ ret = 1 /\ InvalidInBody
    /\ buf = Poke(PokeBase1, 6, SPACE)
    /\ state = "s_fragment"

(* ------------------------------------------------------------------ *)
(* C18: on success the path ends at the first '?' or '#'; a query      *)
(* starts right after the first '?', may hold '?', and ends at the     *)
(* first '#' or the end of the input; a fragment starts right after    *)
(* the first '#', may hold '?' and '#', and extends to the end of the  *)
(* input; neither delimiter lies in any field.                         *)
(* ------------------------------------------------------------------ *)
\* the first '?' or '#' of the body, and its first '#'
FirstDelim ==
    Min({k \in BodyStart..(Len(buf) - 1) : buf[k + 1] \in {QUESTION, HASH}}
        \cup {Len(buf)})

FirstHash == IndexOf(buf, HASH, BodyStart)

C18_PathQueryFragmentSplit ==
    (Accepted /\ ~is_connect) =>
        /\ Present("UF_PATH") =>
              Off("UF_PATH") = BodyStart /\ End("UF_PATH") = FirstDelim
        /\ Present("UF_QUERY") <=> (FirstDelim < Len(buf) /\ buf[FirstDelim + 1] = QUESTION)
        /\ Present("UF_QUERY") =>
              Off("UF_QUERY") = FirstDelim + 1 /\ End("UF_QUERY") = FirstHash
        /\ Present("UF_FRAGMENT") <=> FirstHash < Len(buf)
        /\ Present("UF_FRAGMENT") =>
              Off("UF_FRAGMENT") = FirstHash + 1 /\ End("UF_FRAGMENT") = Len(buf)
        /\ \A f \in u.field_set : FirstDelim \notin Range(f) /\ FirstHash \notin Range(f)

\* a query that holds '?' and a fragment that holds '#' and '?'
C18_Witness ==
    /\ Accepted /\ ~is_connect /\ {"UF_PATH", "UF_QUERY", "UF_FRAGMENT"} \subseteq u.field_set
    /\ \E k \in Range("UF_QUERY") : buf[k + 1] = QUESTION
    /\ \E k \in Range("UF_FRAGMENT") : buf[k + 1] = HASH
    /\ \E k \in Range("UF_FRAGMENT") : buf[k + 1] = QUESTION

(* ------------------------------------------------------------------ *)
(* C19: in non-CONNECT mode every accepted input that starts with '*'  *)
(* or with '/' not followed by '/' has the path present from offset 0  *)
(* and no scheme, userinfo, host or port; "/" and "*" succeed with     *)
(* path = (0,1) and nothing else.                                      *)
(* ------------------------------------------------------------------ *)
C19_RelativeStart ==
    /\ (Accepted /\ RelStart) =>
          /\ Present("UF_PATH") /\ Off("UF_PATH") = 0
          /\ u.field_set \cap {"UF_SCHEMA", "UF_USERINFO", "UF_HOST", "UF_PORT"} = {}
    /\ (Done /\ ~is_connect /\ buf \in {<<SLASH>>, <<STAR>>}) =>
          /\ ret = 0
          /\ u.field_set = {"UF_PATH"}
          /\ Off("UF_PATH") = 0 /\ FLen("UF_PATH") = 1

\* an input starting with '*' accepted with a path and a fragment
C19_Witness ==
    /\ Accepted /\ RelStart /\ buf[1] = STAR
    /\ FLen("UF_PATH") > 1 /\ Present("UF_FRAGMENT")

(* ------------------------------------------------------------------ *)
(* C20: parse fails on the empty input in both modes, and in           *)
(* non-CONNECT mode on every input whose first byte is not ALPHA, '/'  *)
(* or '*'.                                                             *)
(* ------------------------------------------------------------------ *)
BadStartCase ==
    /\ ~is_connect /\ Len(buf) > 0
    /\ ~IsAlphaByte(buf[1]) /\ buf[1] \notin {SLASH, STAR}

C20_BadStartRejected ==
    /\ (Done /\ Len(buf) = 0) => ret = 1
    /\ (Done /\ BadStartCase) => ret = 1

\* "1:1", a leading digit, has been rejected
C20_Witness ==
    Done /\ ret = 1 /\ BadStartCase /\ buf = <<DIGIT1, COLON, DIGIT1>>

(* ------------------------------------------------------------------ *)
(* C21: when a non-CONNECT input "http://" A R is accepted, the input  *)
(* "//" A R is accepted too, without a scheme, with the same fields    *)
(* otherwise, every offset 5 lower (the host of "//" A R begins at 2)  *)
(* and the same port value.                                            *)
(* ------------------------------------------------------------------ *)
HttpPrefixLen == 5

\* buf is "http:" followed by "//" and at least one byte more
HttpForm ==
    /\ ~is_connect
    /\ Len(buf) > HttpPrefixLen + 2
    /\ Slice(buf, 0, HttpPrefixLen + 2) = S_http \o ColonSlashSlash

\* the parse of buf without its leading "http:"
SchemeRelativeCall ==
    http_parser_parse_url(Slice(buf, HttpPrefixLen, Len(buf)), FALSE,
                          http_parser_url_init, NUL)

C21_SchemeRelativeShift ==
    (Accepted /\ HttpForm) =>
        LET r == SchemeRelativeCall
        IN /\ r.ret = 0
           /\ r.u.field_set = u.field_set \ {"UF_SCHEMA"}
           /\ r.u.port = u.port
           /\ \A f \in r.u.field_set :
                 /\ r.u.field_data[f].off = Off(f) - HttpPrefixLen
                 /\ r.u.field_data[f].len = FLen(f)
           /\ Present("UF_HOST") /\ r.u.field_data["UF_HOST"].off >= 2

\* an accepted "http://" input with userinfo, host, port, path and query
C21_Witness ==
    /\ Accepted /\ HttpForm
    /\ {"UF_USERINFO", "UF_HOST", "UF_PORT", "UF_PATH", "UF_QUERY"} \subseteq u.field_set
    /\ Off("UF_HOST") > HttpPrefixLen + 2

(* ------------------------------------------------------------------ *)
(* C22: in an absolute URL the first '#' directly after the authority  *)
(* ends it: scheme "://" host "#" fragment is accepted, the host is    *)
(* the bytes before the '#' and the fragment begins right after it.    *)
(* ------------------------------------------------------------------ *)
\* the first '#' of the authority and what follows it
HashAfterHost == IndexOf(buf, HASH, A0)

\* scheme "://" host "#" fragment, the host letters and digits only and no
\* byte of the fragment of class cc_invalid
HostThenFragment ==
    /\ ~is_connect /\ A0 > 2
    /\ SchemeGrammar(buf, A0 - 3)
    /\ HashAfterHost > A0 /\ HashAfterHost < Len(buf)
    /\ \A k \in A0..(HashAfterHost - 1) : IsAlphaByte(buf[k + 1]) \/ IsDigitByte(buf[k + 1])
    /\ \A k \in (HashAfterHost + 1)..(Len(buf) - 1) : ~InvalidByte(buf[k + 1])

C22_FragmentAfterAuthority ==
    (Done /\ HostThenFragment) =>
        /\ ret = 0
        /\ Present("UF_HOST")
        /\ Off("UF_HOST") = A0 /\ End("UF_HOST") = HashAfterHost
        /\ Present("UF_FRAGMENT")
        /\ Off("UF_FRAGMENT") = HashAfterHost + 1 /\ End("UF_FRAGMENT") = Len(buf)

(* ------------------------------------------------------------------ *)
(* C23: the percent validation of the finalized host.  A host range    *)
(* without '%' passes; one with both '%' and ':' passes whatever       *)
(* follows the '%'; any other passes only if every '%' is followed,    *)
(* inside the range, by two HEX bytes (a '%' at position len-1 or      *)
(* len-2 fails).  A parse whose stored host does not pass fails.       *)
(* ------------------------------------------------------------------ *)
\* the range [off, off + len) of b holds byte c
RangeHas(b, off, len, c) == \E k \in off..(off + len - 1) : b[k + 1] = c

\* the rule of the claim, read off the bytes
PercentRule(b, off, len) ==
    \/ ~RangeHas(b, off, len, PERCENT)
    \/ RangeHas(b, off, len, COLON)
    \/ \A k \in off..(off + len - 1) :
          b[k + 1] = PERCENT =>
              /\ k + 2 < off + len
              /\ IsHexByte(b[k + 2]) /\ IsHexByte(b[k + 3])

C23_HostPercentRule ==
    Done =>
        /\ (ret = 0 /\ Present("UF_HOST")) =>
               PercentRule(buf, Off("UF_HOST"), FLen("UF_HOST"))
        /\ \A off \in 0..Len(buf) : \A len \in 0..(Len(buf) - off) :
               validate_host_percent_encoding(buf, off, len, NUL)
                   = PercentRule(buf, off, len)

\* an accepted host that has a '%' and no ':', so its escapes were inspected
C23_Witness ==
    /\ Accepted /\ Present("UF_HOST")
    /\ RangeHas(buf, Off("UF_HOST"), FLen("UF_HOST"), PERCENT)
    /\ ~RangeHas(buf, Off("UF_HOST"), FLen("UF_HOST"), COLON)

(* ------------------------------------------------------------------ *)
(* C24: a '[' in the authority.  The parse fails when no ']' follows   *)
(* it before the end of the input, and fails when a byte between the   *)
(* '[' and its ']' that precedes the first '%' is not HEX, ':' or '.'. *)
(* The bytes from the first '%' up to the ']' are not validated.       *)
(* ------------------------------------------------------------------ *)
RECURSIVE OpenSet(_, _, _)
\* the indices >= k of the '[' that open a bracket, each closed by the next ']'
OpenSet(b, k, inside) ==
    IF k >= Len(b) THEN {}
    ELSE IF inside THEN OpenSet(b, k + 1, b[k + 1] # RBRACKET)
    ELSE IF b[k + 1] = LBRACKET THEN {k} \cup OpenSet(b, k + 1, TRUE)
    ELSE OpenSet(b, k + 1, FALSE)

\* the opening brackets of the authority
AuthorityOpens == {k \in OpenSet(buf, A0, FALSE) : k < AuthEnd(buf, A0)}

\* the validated part of the bracket opened at k ends at the first '%', or
\* at the ']' when there is none
ZoneOrClose(k) == Min({IndexOf(buf, PERCENT, k + 1), IndexOf(buf, RBRACKET, k + 1)})

BracketByte(c) == IsHexByte(c) \/ c \in {COLON, DOT}

\* "//[:%" x "]": a bracketed host whose zone part is the byte x
ZoneInput(x) == <<SLASH, SLASH, LBRACKET, COLON, PERCENT, x, RBRACKET>>

C24_BracketScan ==
    Done =>
        /\ A0 # -1 =>
              \A k \in AuthorityOpens :
                 /\ IndexOf(buf, RBRACKET, k + 1) = Len(buf) => ret = 1
                 /\ (\E m \in (k + 1)..(ZoneOrClose(k) - 1) : ~BracketByte(buf[m + 1]))
                        => ret = 1
        /\ (~is_connect /\ buf \in {ZoneInput(HIGH), ZoneInput(AT)}) => ret = 0

\* an accepted bracketed host with a byte >= 128 after its '%'
C24_Witness ==
    /\ Accepted /\ A0 # -1 /\ AuthorityOpens # {}
    /\ \E k \in AuthorityOpens :
          \E m \in (ZoneOrClose(k) + 1)..(IndexOf(buf, RBRACKET, k + 1) - 1) :
             buf[m + 1] = HIGH

(* ------------------------------------------------------------------ *)
(* C25: char_flags gives every byte exactly these flags: ALPHA for     *)
(* A-Z a-z, DIGIT for 0-9, HEX for 0-9 A-F a-f, UNRESERVED for - . _ ~,*)
(* SUBDELIM for ! $ & ' ( ) * + , ; =, USERINFO for the letters, the   *)
(* digits and - . _ ~ ! $ & ' ( ) * + , ; = % : and for no other byte, *)
(* nothing for a byte >= 128; so a host or a userinfo that contains    *)
(* '~' is accepted.                                                    *)
(* ------------------------------------------------------------------ *)
\* the bytes the claim gives CHAR_USERINFO besides letters and digits
UserinfoRule == UnreservedBytes \cup SubdelimBytes \cup {PERCENT, COLON}

FlagsRule(c) ==
    IF c >= HIGH THEN {}
    ELSE (IF IsAlphaByte(c) THEN {"CHAR_ALPHA"} ELSE {})
         \cup (IF IsDigitByte(c) THEN {"CHAR_DIGIT"} ELSE {})
         \cup (IF IsHexByte(c) THEN {"CHAR_HEX"} ELSE {})
         \cup (IF c \in {45, 46, 95, TILDE} THEN {"CHAR_UNRESERVED"} ELSE {})
         \cup (IF c \in {33, 36, 38, 39, 40, 41, 42, 43, 44, 59, 61}
               THEN {"CHAR_SUBDELIM"} ELSE {})
         \cup (IF IsAlphaByte(c) \/ IsDigitByte(c) \/ c \in UserinfoRule
               THEN {"CHAR_USERINFO"} ELSE {})

C25_FlagsTable ==
    Done =>
        /\ \A k \in 1..Len(buf) : char_flags(buf[k]) = FlagsRule(buf[k])
        /\ (~is_connect /\ buf \in TildeForms) => ret = 0

(* ------------------------------------------------------------------ *)
(* C26: a call works on the caller's buffer and its own locals only:   *)
(* no step puts another buffer in its place.  The scheme-relative      *)
(* input "//..." is handled by entering s_server_start at offset 2 of  *)
(* that buffer, not through an "http:"-prefixed copy, and the offsets  *)
(* stored for it are never rewritten afterwards.                       *)
(* ------------------------------------------------------------------ *)
\* buf is "//" followed by at least one byte more, not in CONNECT mode
SchemeRelativeForm ==
    /\ ~is_connect /\ Len(buf) > 2
    /\ buf[1] = SLASH /\ buf[2] = SLASH

\* the stored range of field f has been written
Written(f) == u.field_data[f] # http_parser_url_init.field_data[f]

InPlaceStep ==
    pc # "done" =>
        /\ buf' = buf
        /\ (pc = "call" /\ SchemeRelativeForm) =>
              /\ pc' = "loop" /\ state' = "s_server_start"
              /\ i' = 2 /\ field_start' = 2
              /\ u'.field_set = {"UF_HOST"}
        /\ SchemeRelativeForm =>
              \A f \in Fields : Written(f) => u'.field_data[f] = u.field_data[f]

C27_CursorInsideInput == pc = "loop" => i < Len(buf)

(* ------------------------------------------------------------------ *)
(* C28: a call terminates on every finite input.  The loop goes on     *)
(* only with the cursor inside the input; a loop step either moves     *)
(* the cursor forward or, in the one re-process step of s_path at '?'  *)
(* or '#', leaves it where it is and changes the state to              *)
(* s_query_or_fragment, whose step moves it forward; so no index is    *)
(* handled more than twice and the call eventually returns.            *)
(* ------------------------------------------------------------------ *)
\* the inputs termination is established on: every shape of input, and the byte
\* strings of length <= MaxLen - 2 after each prefix
LiveCalls ==
    ({p \o s : p \in Prefixes, s \in UNION {[1..n -> Alphabet] : n \in 0..(MaxLen - 2)}}
        \X {FALSE, TRUE})
    \cup ((Bare \cup RelForms \cup SchemeRelativeForms \cup PortForms
           \cup TildeForms \cup PokeForms) \X {FALSE})
    \cup (ZoneAuth \X {FALSE, TRUE})

InitLive == InitWith(LiveCalls)

\* the scheduling of a sequential call: the next step is always taken
SpecLive == InitLive /\ [][Next]_vars /\ WF_vars(Next)

\* the step of s_path that hands the delimiter at i to s_query_or_fragment
ReprocessStep ==
    /\ state = "s_path" /\ state' = "s_query_or_fragment"
    /\ i' = i
    /\ buf[i + 1] \in {QUESTION, HASH}

CursorProgress ==
    /\ pc = "call" => pc' \in {"loop", "done"}
    /\ pc = "final" => pc' = "done"
    /\ pc = "loop" => pc' \in {"loop", "final", "done"}
    /\ (pc = "loop" /\ pc' = "loop") =>
          /\ i' < Len(buf)
          /\ i' > i \/ ReprocessStep
          /\ state = "s_query_or_fragment" => i' > i

C28_Terminates == [][CursorProgress]_vars /\ <>Done

\* the delimiter that ended the path is about to be handled a second time
C28_Witness ==
    /\ pc = "loop" /\ state = "s_query_or_fragment"
    /\ Present("UF_PATH") /\ End("UF_PATH") = i
    /\ buf[i + 1] \in {QUESTION, HASH}

(* ------------------------------------------------------------------ *)
(* C29: the fast paths for "http:", "https:", "ftp:", "ws:" and "wss:" *)
(* change nothing observable: a non-CONNECT call on an input that      *)
(* starts with a letter succeeds or fails, and on success returns the  *)
(* view, exactly as the parse that always starts in s_schema with the  *)
(* scheme field at offset 0 (the short inputs "http:" and "ws:" that   *)
(* miss the length guards included).                                   *)
(* ------------------------------------------------------------------ *)
\* the input starts with a letter: the scheme branch of the entry is taken
SchemeStartForm == ~is_connect /\ Len(buf) > 0 /\ IsAlphaByte(buf[1])

\* the parse of buf by the loop alone, from s_schema at offset 0
SchemaCall == Run(SchemaStart(buf, is_connect, http_parser_url_init), NUL)

\* the entry took a fast path: the scheme was stored before the loop
FastPathTaken ==
    /\ SchemeStartForm
    /\ Enter(buf, is_connect, http_parser_url_init).state = "s_schema_slash"

C29_FastPathEquivalent ==
    (Done /\ SchemeStartForm) =>
        /\ ret = SchemaCall.ret
        /\ ret = 0 => u = SchemaCall.u

\* an accepted input for which a fast path was taken
C29_Witness == Accepted /\ FastPathTaken /\ Present("UF_PORT") /\ Present("UF_PATH")

(* ------------------------------------------------------------------ *)
(* C30: parse_port against the plain decimal decoder, on every byte    *)
(* string: it fails exactly when the length is 0 or more than 5, or a  *)
(* byte is not a digit, or the value exceeds 65535, and otherwise      *)
(* stores exactly the value; the unrolled cases of length 1 to 4 give  *)
(* what the general loop gives.                                        *)
(* ------------------------------------------------------------------ *)
\* the longest string tried: one more than the longest parse_port takes
MaxPortLen == 6

\* the digits of 65535 and 65536, '/' (the byte below '0') and a letter that
\* shares CHAR_HEX and CHAR_USERINFO with the digits
PortAlphabet == {DIGIT0, 51, 53, 54, SLASH, La}

PortStrings == UNION {[1..n -> PortAlphabet] : n \in 0..MaxPortLen}

\* parse_port is about to be called on the whole of buf
InitPort ==
    /\ buf \in PortStrings
    /\ is_connect = FALSE
    /\ u = http_parser_url_init
    /\ state = "s_dead" /\ field = "UF_MAX"
    /\ field_start = 0 /\ i = 0 /\ port_start = 0
    /\ found_colon = FALSE /\ bracket_depth = 0
    /\ pc = "port_call" /\ ret = 0 /\ calls = 1

\* ret = parse_port(buf, buflen, &u->port)
PortCall ==
    /\ pc = "port_call"
    /\ LET r == parse_port(buf, 0, Len(buf), NUL)
       IN /\ ret' = IF r.ok THEN 0 ELSE -1
          /\ u' = IF r.ok THEN [u EXCEPT !.port = r.port] ELSE u
    /\ pc' = "port_done"
    /\ UNCHANGED <<buf, is_connect, state, field, field_start, i, port_start,
                   found_colon, bracket_depth, calls>>

NextPort == PortCall

SpecPort == InitPort /\ [][NextPort]_vars

\* the decoder of the claim rejects buf
PortRejected ==
    \/ Len(buf) = 0 \/ Len(buf) > 5
    \/ ~AllDigits(buf, 0, Len(buf))
    \/ DecValue(buf, 0, Len(buf)) > PortMax

C30_ParsePortDecodes ==
    pc = "port_done" =>
        /\ ret = -1 <=> PortRejected
        /\ ret = 0 => u.port = DecValue(buf, 0, Len(buf))
        /\ Len(buf) \in 1..4 =>
              parse_port(buf, 0, Len(buf), NUL) = PortLoop(buf, 0, Len(buf), 0, 0, NUL)

\* "65535", the largest port, decoded by the general loop
C30_Witness ==
    /\ pc = "port_done" /\ ret = 0
    /\ buf = <<54, 53, 53, 51, 53>> /\ u.port = PortMax

(* ------------------------------------------------------------------ *)
(* C31: in the states path, query and fragment the batch scans do what *)
(* stepping url_state_table one byte at a time does: a call fails      *)
(* exactly when the byte-at-a-time run meets a dead entry, and on      *)
(* success both end in the same state with the same path, query and    *)
(* fragment (off, len).                                                *)
(* ------------------------------------------------------------------ *)
\* the same call, run one byte at a time through the table
TableCall == TableRun(Enter(buf, is_connect, http_parser_url_init), NUL)

C31_BatchScanEquivalent ==
    Done =>
        /\ ret = TableCall.ret
        /\ ret = 0 =>
              /\ state = TableCall.state
              /\ u.field_set = TableCall.u.field_set
              /\ \A f \in {"UF_PATH", "UF_QUERY", "UF_FRAGMENT"} :
                    Present(f) => u.field_data[f] = TableCall.u.field_data[f]

\* an accepted input whose path, query and fragment each hold several bytes
C31_Witness ==
    /\ Accepted
    /\ \A f \in {"UF_PATH", "UF_QUERY", "UF_FRAGMENT"} : Present(f) /\ FLen(f) >= 2

(* ------------------------------------------------------------------ *)
(* C32: at an '@' met in state server the bytes [field_start, i)       *)
(* become the userinfo, the colon tracking is cleared and the host     *)
(* restarts at i + 1.  So on success the userinfo runs from the start  *)
(* of the authority to the '@', a ':' inside it yields no port and     *)
(* does not shorten the host: without a ':' after the '@' there is no  *)
(* port and an unbracketed host runs to the end of the authority.      *)
(* ------------------------------------------------------------------ *)
\* the loop is at an '@' in state s_server
AtAnAt == pc = "loop" /\ state = "s_server" /\ i < Len(buf) /\ buf[i + 1] = AT

\* what the step taken at the '@' leaves
AfterAt == Iter(Cur, NUL)

\* the userinfo holds a ':'
ColonInUserinfo ==
    \E k \in Range("UF_USERINFO") : buf[k + 1] = COLON

C32_UserinfoAtAt ==
    /\ AtAnAt =>
          /\ AfterAt.u.field_data["UF_USERINFO"]
                = [off |-> field_start, len |-> i - field_start]
          /\ {"UF_USERINFO", "UF_HOST"} \subseteq AfterAt.u.field_set
          /\ AfterAt.state = "s_server_with_at"
          /\ AfterAt.field = "UF_HOST" /\ AfterAt.field_start = i + 1
          /\ ~AfterAt.found_colon /\ AfterAt.port_start = 0
    /\ (Accepted /\ Present("UF_USERINFO")) =>
          /\ Off("UF_USERINFO") = A0 /\ End("UF_USERINFO") = H0 - 1
          /\ Present("UF_HOST") /\ Off("UF_HOST") >= H0
          /\ Present("UF_PORT") => Off("UF_PORT") > End("UF_HOST")
          /\ HostColon(buf, A0) = -1 =>
                /\ ~Present("UF_PORT")
                /\ ~HostBracketed => End("UF_HOST") = AuthEnd(buf, A0)

\* "user:pass@host/path": a colon in the userinfo, no port
C32_Witness ==
    /\ Accepted /\ Present("UF_USERINFO") /\ ColonInUserinfo
    /\ ~Present("UF_PORT") /\ Present("UF_PATH")
    /\ End("UF_HOST") = Off("UF_PATH") /\ FLen("UF_HOST") >= 1

(* ------------------------------------------------------------------ *)
(* C33: colons inside a bracketed host never introduce a port.  For an *)
(* accepted authority "[" X "]" with nothing after the ']' the port is *)
(* absent and the host is X; a port is introduced only by a ':' that   *)
(* stands immediately after the ']'.                                   *)
(* ------------------------------------------------------------------ *)
\* the ']' that closes the bracket the host part opens with
HostClose == IndexOf(buf, RBRACKET, H0 + 1)

C33_BracketColonsNoPort ==
    (Accepted /\ HostBracketed) =>
        /\ HostClose + 1 = AuthEnd(buf, A0) =>
              /\ ~Present("UF_PORT")
              /\ Present("UF_HOST")
              /\ Off("UF_HOST") = H0 + 1 /\ End("UF_HOST") = HostClose
        /\ Present("UF_PORT") =>
              /\ HostClose + 1 < Len(buf) /\ buf[HostClose + 2] = COLON
              /\ Off("UF_PORT") = HostClose + 2

(* ------------------------------------------------------------------ *)
(* C34: when the host part of the authority begins with '[', the host  *)
(* finalizer closes it at the LAST ']' of the authority: the stored    *)
(* host is everything between the leading '[' and that ']', also when  *)
(* the authority holds more than one ']' ("[::1][::2]").               *)
(* ------------------------------------------------------------------ *)
\* the last ']' of the authority
LastClose ==
    CHOOSE k \in H0..(AuthEnd(buf, A0) - 1) :
        /\ buf[k + 1] = RBRACKET
        /\ \A m \in (k + 1)..(AuthEnd(buf, A0) - 1) : buf[m + 1] # RBRACKET

C34_HostToLastBracket ==
    (Accepted /\ HostBracketed) =>
        /\ Present("UF_HOST")
        /\ Off("UF_HOST") = H0 + 1
        /\ End("UF_HOST") = LastClose

(* ------------------------------------------------------------------ *)
(* C35: at the end of the input the current field is flushed as        *)
(* (field_start, n - field_start) and stays present even when empty:   *)
(* "/test?" has its query present with len 0 at off = n, "/test#" its  *)
(* fragment present with len 0 at off = n, and "/p?#" has both query   *)
(* and fragment present and empty.                                     *)
(* ------------------------------------------------------------------ *)
\* a relative input without invalid byte that ends with the byte c
RelEndsWith(c) ==
    /\ RelStart
    /\ \A k \in 1..Len(buf) : ~InvalidByte(buf[k])
    /\ buf[Len(buf)] = c

C35_FinalFlush ==
    /\ (Accepted /\ field \in {"UF_PATH", "UF_QUERY", "UF_FRAGMENT"}) =>
          /\ Present(field)
          /\ Off(field) = field_start /\ End(field) = Len(buf)
    /\ (Done /\ RelEndsWith(QUESTION) /\ IndexOf(buf, HASH, 0) = Len(buf)
             /\ IndexOf(buf, QUESTION, 0) = Len(buf) - 1) =>
          /\ ret = 0 /\ Present("UF_QUERY")
          /\ Off("UF_QUERY") = Len(buf) /\ FLen("UF_QUERY") = 0
    /\ (Done /\ RelEndsWith(HASH) /\ IndexOf(buf, HASH, 0) = Len(buf) - 1) =>
          /\ ret = 0 /\ Present("UF_FRAGMENT")
          /\ Off("UF_FRAGMENT") = Len(buf) /\ FLen("UF_FRAGMENT") = 0
          /\ IndexOf(buf, QUESTION, 0) = Len(buf) - 2 =>
                /\ Present("UF_QUERY") /\ FLen("UF_QUERY") = 0
                /\ Off("UF_QUERY") = Len(buf) - 1

\* "...?#": the query and the fragment both present and empty
C35_Witness ==
    /\ Accepted /\ RelStart
    /\ Present("UF_PATH") /\ FLen("UF_PATH") >= 2
    /\ Present("UF_QUERY") /\ FLen("UF_QUERY") = 0
    /\ Present("UF_FRAGMENT") /\ FLen("UF_FRAGMENT") = 0
    /\ Off("UF_FRAGMENT") = Len(buf)

(* ------------------------------------------------------------------ *)
(* C36: a bracketed host holds at least one byte: the parse fails when *)
(* the host is "[]" ("http://[]/", CONNECT "[]:80"), and a bracketed   *)
(* host that is present never has len 0.                               *)
(* ------------------------------------------------------------------ *)
\* the host part of the input opens with "[]"
EmptyBrackets ==
    HostBracketed /\ H0 + 1 < Len(buf) /\ buf[H0 + 2] = RBRACKET

C36_BracketedHostNonEmpty ==
    /\ (Done /\ EmptyBrackets) => ret = 1
    /\ (Accepted /\ HostBracketed /\ Present("UF_HOST")) => FLen("UF_HOST") > 0

(* ------------------------------------------------------------------ *)
(* C37: with is_connect set the accepted language is host [":" port]   *)
(* with the port required and nothing else: on success the scheme and  *)
(* the userinfo are absent, so an input that holds an '@', such as     *)
(* "user@example.com:443", is rejected.                                *)
(* ------------------------------------------------------------------ *)
C37_ConnectHostPortOnly ==
    /\ (Accepted /\ is_connect) =>
          /\ Present("UF_HOST") /\ Present("UF_PORT")
          /\ ~Present("UF_SCHEMA") /\ ~Present("UF_USERINFO")
    /\ (Done /\ is_connect /\ \E k \in 1..Len(buf) : buf[k] = AT) => ret = 1

(* ------------------------------------------------------------------ *)
(* C38: for every accepted input the present fields and their          *)
(* delimiters tile the input: scheme and "://" (or the leading "//"),  *)
(* userinfo and "@", host (inside '[' and ']' when bracketed), ":" and *)
(* port, path, "?" and query, "#" and fragment follow one another      *)
(* without gap from 0 to the end of the input, so that no byte of an   *)
(* accepted input is dropped.                                          *)
(* ------------------------------------------------------------------ *)
\* the byte of buf at the 0-based position k is c
ByteIs(k, c) == k >= 0 /\ k < Len(buf) /\ buf[k + 1] = c

\* where the tile of field f ends when it must start at p behind the
\* delimiter bytes d (-1 when it does not fit); p when f is absent
TileEnd(f, d, p) ==
    IF p = -1 \/ ~Present(f) THEN p
    ELSE IF /\ \A k \in 1..Len(d) : ByteIs(p + k - 1, d[k])
            /\ Off(f) = p + Len(d)
         THEN End(f) ELSE -1

\* the tile of the host, with its brackets when it has them
HostTileEnd(p) ==
    IF p = -1 \/ ~Present("UF_HOST") THEN p
    ELSE IF ByteIs(p, LBRACKET) /\ Off("UF_HOST") = p + 1
         THEN IF ByteIs(End("UF_HOST"), RBRACKET) THEN End("UF_HOST") + 1 ELSE -1
         ELSE IF Off("UF_HOST") = p THEN End("UF_HOST") ELSE -1

\* the input starts with the "//" of a scheme-relative URL
LeadEnd ==
    IF Present("UF_SCHEMA") THEN
        LET e == TileEnd("UF_SCHEMA", <<>>, 0)
        IN IF e # -1 /\ ByteIs(e, COLON) /\ ByteIs(e + 1, SLASH) /\ ByteIs(e + 2, SLASH)
           THEN e + 3 ELSE -1
    ELSE IF Present("UF_HOST") /\ ~is_connect
         THEN IF ByteIs(0, SLASH) /\ ByteIs(1, SLASH) THEN 2 ELSE -1
         ELSE 0

UserinfoTileEnd(p) ==
    IF p = -1 \/ ~Present("UF_USERINFO") THEN p
    ELSE IF Off("UF_USERINFO") = p /\ ByteIs(End("UF_USERINFO"), AT)
         THEN End("UF_USERINFO") + 1 ELSE -1

C38_FieldsTileInput ==
    Accepted =>
        TileEnd("UF_FRAGMENT", <<HASH>>,
          TileEnd("UF_QUERY", <<QUESTION>>,
            TileEnd("UF_PATH", <<>>,
              TileEnd("UF_PORT", <<COLON>>,
                HostTileEnd(UserinfoTileEnd(LeadEnd)))))) = Len(buf)

(* ------------------------------------------------------------------ *)
(* C39: during a parse the state only moves forward in the order       *)
(* start, schema, schema_slash, schema_slash_slash, server_start,      *)
(* server, server_with_at, path, query_or_fragment, query, fragment    *)
(* (states may be skipped, none is entered again once left);           *)
(* query_or_fragment is occupied for exactly one byte; and every       *)
(* successful return happens in server, server_with_at, path, query    *)
(* or fragment.                                                        *)
(* ------------------------------------------------------------------ *)
\* the position of a state in the enum, which is the order of the claim
Rank(st) == CHOOSE k \in 1..Len(States) : States[k] = st

\* one step of a running call
ForwardStep ==
    pc \in {"loop", "final"} =>
        /\ Rank(state') >= Rank(state)
        \* query_or_fragment is entered at a byte that is not yet consumed
        /\ (state' = "s_query_or_fragment" /\ state # "s_query_or_fragment") =>
              pc' = "loop" /\ i' = i
        \* and left as that byte is consumed
        /\ state = "s_query_or_fragment" =>
              /\ pc = "loop"
              /\ state' \in {"s_query", "s_fragment"}
              /\ i' = i + 1

C39_StateOrder ==
    /\ [][ForwardStep]_vars
    /\ [](Accepted =>
            state \in {"s_server", "s_server_with_at", "s_path", "s_query",
                       "s_fragment"})

\* in query_or_fragment behind a scheme, an authority with userinfo and a path
C39_Witness ==
    /\ pc = "loop" /\ state = "s_query_or_fragment"
    /\ Present("UF_SCHEMA") /\ Present("UF_USERINFO") /\ Present("UF_PATH")

(* ------------------------------------------------------------------ *)
(* C40: for every state and every character class the entry            *)
(* url_state_table[state][class] agrees with what the driver does with *)
(* a byte of that class in that state: STAY leaves the state as it is, *)
(* s_dead makes the parse fail, any other entry is the next state; in  *)
(* particular for s_server and s_server_with_at they agree on '|',     *)
(* '{', '}', '[', ']', '#' and on the state that follows '?'.          *)
(* ------------------------------------------------------------------ *)
\* the entry of the table for the byte at the cursor
TableEntry == url_state_table(state, char_class_table(buf[i + 1]))

\* the driver and the entry agree on the byte at the cursor; a STAY entry
\* is compared on the last byte, where a batch scan takes that byte alone
DriverAgrees(n) ==
    /\ TableEntry = "s_dead" => n.pc = "done" /\ n.ret = 1
    /\ (TableEntry = "STAY" /\ i + 1 = Len(buf)) =>
          n.pc = "final" /\ n.state = state
    /\ (TableEntry \notin {"s_dead", "STAY"} /\ n.pc # "done") =>
          n.state = TableEntry

\* C40 for the rows of s_server and s_server_with_at and the bytes '|', '{',
\* '}', '[', ']', '#' and '?': the table and the driver agree
C40_ServerRows ==
    (/\ pc = "loop" /\ i < Len(buf)
     /\ state \in {"s_server", "s_server_with_at"}
     /\ buf[i + 1] \in {PIPE, 123, 125, LBRACKET, RBRACKET, HASH, QUESTION}) =>
        \A g \in Garbage : DriverAgrees(Iter(Cur, g))

====
